---- MODULE Spec2Model ----
(***************************************************************************)
(* Verification model of the time-driven coordination components of        *)
(* apollo-ai:                                                              *)
(*   - MessageBufferService / BufferWatchdog  (services/message_buffer.py) *)
(*   - IntelligentDelayService                (services/intelligent_delay) *)
(*   - CampaignDispatcher                     (workers/campaign_dispatcher)*)
(*   - ReengagementWatchdog                   (services/reengagement.py)   *)
(* The shared store (Redis) is modelled by the keys the code touches: the  *)
(* buffer list with its TTL, the lock key with its TTL, and the stream of  *)
(* key-expiration notifications each subscribed watcher receives.          *)
(***************************************************************************)
EXTENDS Integers, Sequences, FiniteSets, TLC

\* ------------------------------------------------------------------------
\* Bounds of the model
\* ------------------------------------------------------------------------
MaxPush == 3
MaxProgCalls == 12
MaxTasks == 3
MaxBatch == 3
MaxEvents == 3
MaxMessages == 3
MaxIdLen == 4

\* ------------------------------------------------------------------------
\* Program constants
\* ------------------------------------------------------------------------
BUFFER_TTL_SECONDS == 8
LOCK_TTL_SECONDS == 5

NoTTL == 0 - 1
NoRet == 0 - 1
Raised == 0 - 2

\* IntelligentDelayService: durations are in hundredths of a second
MAX_DELAY_SECONDS == 5000
DEFAULT_MIN_SECONDS == 500
DEFAULT_MAX_SECONDS == 5000
JITTER_PERCENT == 10

\* CampaignDispatcher
DEFAULT_DAILY_LIMIT == 200
DEFAULT_BATCH_SIZE == 10

\* ReengagementWatchdog defaults
DEFAULT_MAX_ATTEMPTS == 3
DEFAULT_START_HOUR == 9
DEFAULT_END_HOUR == 21

Dispatchers == {"d1", "d2"}

\* ReengagementWatchdog: one watch loop per application replica, and the
\* caller of trigger_manual
Replicas == {"r1", "r2"}
ManualCaller == "api"
Emitters == Replicas \cup {ManualCaller}

Watchers == {"w1", "w2"}

\* main.py registers one handler with on_buffer_ready at startup
StartupHandlers == <<"handle_buffered_messages">>

\* a service on which on_buffer_ready was called twice
TwoHandlers == <<"b1", "b2">>

VARIABLES
    \* --- shared store, buffer key "buffer:chat:{tenant}:{chat}"
    buf,        \* the list stored at the buffer key (<<>> = key absent)
    bufTTL,     \* remaining TTL of the buffer key, NoTTL = persistent
    \* --- shared store, lock key "lock:buffer:{tenant}:{chat}"
    lock,       \* TRUE iff the lock key exists
    lockTTL,    \* remaining TTL of the lock key
    lockOwner,  \* history: the watcher whose SET NX created the lock key that
                \* exists ("none" = no lock key, or not followed); the key
                \* itself holds "1"
    \* --- pub/sub: pending "expired" notifications per subscribed watcher
    notif,
    \* --- push_message in flight
    ppc,        \* "idle" | "client" | "rpushed" | "expired" | "aborted"
    pushRet,    \* how the last push_message that did not reach "return count"
                \* ended: the value it returned (Raised = it raised); NoRet
                \* while there was none
    storeUp,    \* the store answers commands
    pushAvailable, \* MessageBufferService._available of the webhook process
    pushClient, \* its _redis_client is set
    nextId,     \* number of messages pushed so far (message ids 1..nextId)
    \* --- BufferWatchdog._watch_loop / get_buffer per watcher process
    wpc,        \* "listen" | "acquire" | "lrange" | "delete" | "release" | "notify"
    raw,        \* messages_raw of the running get_buffer
    packet,     \* messages of the packet being returned (<<>> = None)
    ret,        \* outcome of the last finished get_buffer
    \* --- history (observers only, never read by the modelled code)
    delivCount, \* per message: number of packets handed to handlers holding it
    sincePush,  \* ticks since a push last reset the key's TTL (capped at the window)
    winLo,      \* id of the first message of the current buffer
    readLo,     \* per watcher: winLo when it read the list
    readHi,     \* per watcher: nextId when it read the list
    expiredWin, \* contents destroyed by the latest key expiry, until the next push
    bufHandlers, \* MessageBufferService._handlers, in registration order
    nidx,       \* per watcher: position of the for loop of _notify_handlers in
                \* _handlers (0 = not in the loop)
    nraised,    \* per watcher: handlers that raised for the packet in hand
    preClear,   \* per watcher: the messages its running get_buffer holds were
                \* read before a clear_buffer that has returned since
    \* --- IntelligentDelayService
    progCounter,  \* _progressive_counter: prefix -> number of progressive calls
    rateSignals,  \* _rate_limit_signals: key -> multiplier in tenths (0 = no entry)
    dargs,        \* the arguments the caller passes to delay(): min, max, strategy
    dcall,        \* the latest delay() call: its id and the duration slept
    activeDelays, \* _active_delays: delay_id -> the task registered (NoTask = no entry)
    tpc,          \* per asyncio task: "idle" | "sleeping" | "returned"
    tdelay,       \* per task: id and planned duration of the delay() it runs
    cancelReq,    \* per task: task.cancel() was called and not yet delivered
    tresult,      \* per task: the DelayResult its delay() returned
    cancelSeen,   \* (history) cancel_delay(own id) was called while the task slept
    \* --- durable store: the campaign row and its campaign_deliveries rows
    campaign,     \* [status, current_batch, batch_size, max_daily_volume]
    taskStatus,   \* per delivery: "pending" | "sending" | "sent" | "failed"
    taskBatch,    \* per delivery: batch_number
    taskError,    \* per delivery: error_message ("" = null)
    \* --- shared store: campaign:rate_limit:{campaign_id} (0 = no key)
    dailyCounter,
    \* --- CampaignDispatcher per worker process
    running,      \* the dispatchers whose start() loop runs
    redisClient,  \* self._redis: "none" | "client"
    cpc,          \* position of the worker in its tick
    snap,         \* the campaign dict the tick selected
    dailySent,    \* daily_sent read at the start of the tick
    batch,        \* deliveries.data of the tick
    idx,          \* position of the for loop in batch
    exc,          \* str(e) of the exception the try block raised ("" = none)
    \* --- history (observers only)
    sendCount,    \* per delivery: times its content was handed to the sender
    attempted,    \* per worker: deliveries whose _send_delivery began this tick
    raised,       \* per worker: deliveries whose try block raised this tick
    \* --- durable store: one agent and one of its conversations
    agentMax,     \* agents.reengagement_max_attempts
    convActive,   \* conversations.status = "active" and mode = "ai"
    silent,       \* conversations.last_message_at is older than the threshold
    lastSender,   \* sender_type of the newest row of messages ("none" = no row)
    attempts,     \* conversations.reengagement_attempts
    \* --- ReengagementWatchdog per replica, and trigger_manual
    rpc,          \* "idle" | "lastmsg" | "update" | "emit" | "handlers" | "emitted"
    convRow,      \* reengagement_attempts of the conv dict the tick selected
    ev,           \* the ReengagementEvent built: [attempt, reason]
    hidx,         \* position of the for loop of _emit_event in _handlers
    \* --- history (observers only)
    events,       \* every event handed to _emit_event, in order
    verdict,      \* how the latest look of a tick at the conversation ended
    invoked,      \* per emitter: handlers invoked for its current event, in order
    hraised,      \* per emitter: handlers that raised for its current event
    \* --- BufferWatchdog / ReengagementWatchdog life cycle, per process
    wd,           \* [running: _running, task: state of the _watch_loop task,
                  \*  stop: position of stop(), subscribed: the pattern
                  \*  subscription exists (buffer watchers), cut: history, a
                  \*  handler invocation was ended by the cancellation]
    \* --- history (observer only)
    sinceFollowUp, \* reengagement_delay_minutes have gone by since the latest
                  \* silence-timeout event was emitted (TRUE before the first)
    \* --- _check_conversations over several agents, one silent conversation each
    business_hours, \* per agent: the business_hours dict of its row
    agentAttempts, \* per agent: reengagement_attempts of its conversation
    firedCount,   \* (history) per agent: events emitted for its conversation
    current_hour, \* now.hour read at the start of the tick
    hourPos,      \* position of the for loop in agents_result.data (0 = no tick)
    hourStage,    \* "gate" | "update" | "emit"
    \* --- calls observed from outside
    svcCall,      \* the latest get_buffer / peek_buffer / clear_buffer call made
                  \* through the service: [op, result, contacted]
    calc          \* a pure function applied to an input: [fn, arg, out]

bufVars == <<buf, bufTTL, lock, lockTTL, notif, ppc, nextId, wpc, raw, packet,
             ret, delivCount, sincePush, winLo, readLo, readHi, expiredWin,
             pushRet, storeUp, pushAvailable, pushClient, preClear, nidx,
             nraised, bufHandlers, lockOwner>>

notifyVars == <<nidx, nraised, bufHandlers>>

faultVars == <<pushRet, storeUp, pushAvailable, pushClient>>

taskVars == <<activeDelays, tpc, tdelay, cancelReq, tresult, cancelSeen>>

delayVars == <<progCounter, rateSignals, dargs, dcall, taskVars>>

campVars == <<campaign, taskStatus, taskBatch, taskError, dailyCounter, running,
              redisClient, cpc, snap, dailySent, batch, idx, exc, sendCount,
              attempted, raised>>

reVars == <<agentMax, convActive, silent, lastSender, attempts, rpc, convRow, ev,
            hidx, events, verdict, invoked, hraised>>

stopVars == <<wd>>

waitVars == <<sinceFollowUp>>

hoursVars == <<business_hours, agentAttempts, firedCount, current_hour, hourPos,
               hourStage>>

callVars == <<svcCall, calc>>

vars == <<bufVars, delayVars, campVars, reVars, stopVars, waitVars, hoursVars, callVars>>

MsgIds == 1..MaxPush

\* ------------------------------------------------------------------------
\* Pure helpers of MessageBufferService
\* ------------------------------------------------------------------------

\* json.dumps(message_data): the stored list entry of a message
Serialize(m) == [json |-> TRUE, message_id |-> m]

\* json.loads(raw) + StandardMessage(...): the message of a stored entry
ParseEntry(e) == e.message_id

\* the for-loop of get_buffer: messages.append(msg) for every raw entry, in order
ParseMessages(rawList) == [i \in 1..Len(rawList) |-> ParseEntry(rawList[i])]

\* faulty variant: an LPUSH in place of the RPUSH: the entry goes to the head
RpushAtHead(list, e) == <<e>> \o list

\* redis.rpush(key, value): append at the tail
Rpush(list, e) == Append(list, e)

\* redis.lrange(key, 0, -1): the whole list
LrangeAll(list) == list

\* redis.set(lock_key, "1", ex=5, nx=True): succeeds iff the key is absent
SetNxAcquires(lockExists) == ~lockExists

\* faulty variant: a return that skips the release: the lock key stays
LockLeftBehind(lockExists) == lockExists

\* finally: redis.delete(lock_key): the lock key after the release
LockAfterRelease(lockExists) == FALSE

Ids(list) == {ParseEntry(list[i]) : i \in 1..Len(list)}

Elems(seq) == {seq[i] : i \in 1..Len(seq)}

Range(lo, hi) == [i \in 1..(hi - lo + 1) |-> lo + i - 1]


\* ------------------------------------------------------------------------
\* IntelligentDelayService: pure helpers
\* ------------------------------------------------------------------------

\* delay ids as <<text before the last "_", text after it>>
DelayIds == {<<"batch", "1">>, <<"batch", "2">>, <<"other", "1">>}

\* delay_id.rsplit("_", 1)[0]
PrefixOf(id) == id[1]

DelayPrefixes == {PrefixOf(id) : id \in DelayIds}

Strategies == {"fixed", "random", "progressive", "adaptive"}

\* the seconds a caller may pass (hundredths), None = argument left out
NoneArg == 0 - 1

SecondsArgs == {NoneArg, 1000, 3000, 6000}

\* the multipliers a caller may pass to set_rate_limit_signal (tenths)
MultiplierArgs == {1, 20, 90}

\* delay() called with no argument: the defaults of DelayConfig
DefaultArgs == [min_seconds |-> NoneArg, max_seconds |-> NoneArg, strategy |-> "random"]

DelayArgs == [min_seconds : SecondsArgs, max_seconds : SecondsArgs, strategy : Strategies]

\* the asyncio tasks of one process that call delay()
DelayTasks == {"t1", "t2"}
NoTask == "none"
NoDelay == [id |-> <<"", "">>, seconds |-> 0]
NoResult == [delay_id |-> <<"", "">>, actual_duration_seconds |-> 0,
             was_cancelled |-> FALSE]

\* finally: if delay_id in self._active_delays: del self._active_delays[delay_id]
Unregister(active, id) == [active EXCEPT ![id] = NoTask]

NoCall == [called |-> FALSE, id |-> <<"", "">>, min_s |-> 0, max_s |-> 0,
           count |-> 0, signal |-> 0, base |-> 0, seconds |-> 0]

Min2(a, b) == IF a <= b THEN a ELSE b
Max2(a, b) == IF a >= b THEN a ELSE b

\* random.uniform(a, b) = a + (b - a) * random(): the two ends and the middle
Uniform(a, b) == {a, b, (a + b) \div 2}

\* min_s of delay(): the argument, or default_config.min_seconds
EffectiveMin(min_seconds) ==
    IF min_seconds = NoneArg THEN DEFAULT_MIN_SECONDS ELSE min_seconds

\* max_s of delay(): min(argument or default_config.max_seconds, MAX_DELAY_SECONDS)
EffectiveMax(max_seconds) ==
    Min2(IF max_seconds = NoneArg THEN DEFAULT_MAX_SECONDS ELSE max_seconds,
         MAX_DELAY_SECONDS)

\* FIXED: max(0, base + uniform(-jitter, jitter)), base = min_s
CalcFixed(min_s) ==
    LET jitter == (min_s * JITTER_PERCENT) \div 100
    IN  {Max2(0, min_s + j) : j \in Uniform(0 - jitter, jitter)}

\* faulty variant: the jitter of the fixed strategy added to the range
CalcRandomJittered(min_s, max_s) ==
    Uniform(min_s - (min_s * JITTER_PERCENT) \div 100,
            max_s + (max_s * JITTER_PERCENT) \div 100)

\* RANDOM_RANGE (and the fall-through): uniform(min_s, max_s)
CalcRandom(min_s, max_s) == Uniform(min_s, max_s)

\* PROGRESSIVE: base = min_s + (max_s - min_s) * min(count / 10, 1.0)
ProgressiveBase(min_s, max_s, count) ==
    min_s + ((max_s - min_s) * Min2(count, 10)) \div 10

\* PROGRESSIVE: min(base + uniform(-0.1 base, 0.1 base), max_s)
CalcProgressive(min_s, max_s, count) ==
    LET base == ProgressiveBase(min_s, max_s, count)
        jitter == base \div 10
    IN  {Min2(base + j, max_s) : j \in Uniform(0 - jitter, jitter)}

\* _rate_limit_signals.get(delay_id, 1.0), in tenths
SignalOf(signals, id) == IF signals[id] = 0 THEN 10 ELSE signals[id]

\* ADAPTIVE: min(uniform(min_s, max_s) * signal, max_s)
CalcAdaptive(min_s, max_s, signal) ==
    {Min2((b * signal) \div 10, max_s) : b \in Uniform(min_s, max_s)}

\* _calculate_delay: the durations the call may return
CalculateDelay(min_s, max_s, strategy, id, counters, signals) ==
    CASE strategy = "fixed" -> CalcFixed(min_s)
      [] strategy = "random" -> CalcRandom(min_s, max_s)
      [] strategy = "progressive" ->
            CalcProgressive(min_s, max_s, counters[PrefixOf(id)])
      [] strategy = "adaptive" ->
            CalcAdaptive(min_s, max_s, SignalOf(signals, id))
      [] OTHER -> CalcRandom(min_s, max_s)

\* faulty variant: the lower clamp left out
ClampMultiplierUpperOnly(m) == Min2(m, 50)

\* set_rate_limit_signal: max(0.5, min(multiplier, 5.0)), in tenths
ClampMultiplier(m) == Max2(5, Min2(m, 50))


\* ------------------------------------------------------------------------
\* CampaignDispatcher: pure helpers
\* ------------------------------------------------------------------------
TaskIds == 1..MaxTasks

\* the values an operator may configure (AntiBanConfig)
BatchSizes == {1, 2}
DailyVolumes == {10, 20}

\* the counter a campaign may find in the store when the dispatcher starts
StartCounters == {0, 9, 10, DEFAULT_DAILY_LIMIT}

\* the columns _process_next_batch selects from the campaigns table
SelectedColumns == {"batch_size", "current_batch"}

\* client.table("campaigns").select(...): the dict of a row
SelectRow(row) == [c \in SelectedColumns |-> row[c]]

\* campaign.get(column, default) on the selected dict
RowGet(row, column, default) ==
    IF column \in DOMAIN row THEN row[column] ELSE default

\* daily_limit = campaign.get("max_daily_volume", 200)
DailyLimit(row) == RowGet(row, "max_daily_volume", DEFAULT_DAILY_LIMIT)

\* if int(daily_sent) >= daily_limit: return
LimitReached(sent, row) == sent >= DailyLimit(row)

RECURSIVE SortedSeq(_)
SortedSeq(S) ==
    IF S = {} THEN <<>>
    ELSE LET m == CHOOSE x \in S : \A y \in S : x <= y
         IN  <<m>> \o SortedSeq(S \ {m})

FirstN(seq, n) == SubSeq(seq, 1, Min2(n, Len(seq)))

\* select ... eq(batch_number, current_batch).eq(status, "pending").limit(batch_size)
PendingOfBatch(statuses, batches, row) ==
    FirstN(SortedSeq({t \in TaskIds : statuses[t] = "pending"
                                      /\ batches[t] = RowGet(row, "current_batch", 0)}),
           RowGet(row, "batch_size", DEFAULT_BATCH_SIZE))

\* faulty variant: the remaining deliveries are not counted
RemainingPendingNotCounted(statuses) == 0

\* remaining.count: the pending deliveries of the campaign, all batches
RemainingPending(statuses) == Cardinality({t \in TaskIds : statuses[t] = "pending"})

\* faulty variant: no except inside the for loop: the exception ends the batch
IndexAfterFailureAborts(i, n) == n + 1

\* the for loop goes on with the next delivery after the except block
IndexAfterFailure(i, n) == i + 1

\* queue_campaign_contacts: batch_number = i // batch_size
QueuedBatchNumber(t, batchSize) == (t - 1) \div batchSize

NoSnap == [c \in SelectedColumns |-> 0]

\* ------------------------------------------------------------------------
\* ReengagementWatchdog: pure helpers
\* ------------------------------------------------------------------------
\* the values an agent's reengagement_max_attempts may hold
MaxAttemptsValues == {1, 2}

\* messages.sender_type as the application writes it
SenderTypes == {"customer", "ai"}

\* sender_type in ["ai", "agent", "human_agent"]
OurSenders == {"ai", "agent", "human_agent"}

\* self._handlers, in registration order
ReHandlers == <<"h1", "h2">>

NoEvent == [attempt |-> 0, reason |-> "none"]

\* conversations ... eq(status, active).eq(mode, ai).lt(last_message_at,
\* threshold).lt(reengagement_attempts, max_attempts)
ConversationSelected(active, isSilent, att, maxAtt) ==
    active /\ isSilent /\ att < maxAtt

\* faulty variant: the last message's sender is not looked at
LastMessageAny(sender) == sender # "none"

\* last_msg.data and last_msg.data[0]["sender_type"] in [ai, agent, human_agent]
LastMessageIsOurs(sender) == sender # "none" /\ sender \in OurSenders

\* attempt_number = conv.get("reengagement_attempts", 0) + 1
AttemptNumber(rowAttempts) == rowAttempts + 1

SilenceEvents == SelectSeq(events, LAMBDA e : e.reason = "silence_timeout")

\* agents_result.data, in the order the query returns the rows
Agents == <<"a1", "a2">>

\* the business_hours dicts an agent's row may hold: none set ({}), disabled,
\* enabled without start and end (the defaults apply), enabled with a window
BusinessHoursValues ==
    { [k \in {} |-> 0],
      [enabled |-> FALSE, start |-> 9, end |-> 21],
      [k \in {"enabled"} |-> TRUE],
      [enabled |-> TRUE, start |-> 13, end |-> 14] }

\* the hours a tick may read from the clock
Hours == {8, 9, 13, 14, 20, 21}

\* faulty variant: the end of the window is taken as inside it
OutsideBusinessHoursEndInclusive(h, bh) ==
    /\ RowGet(bh, "enabled", FALSE)
    /\ \/ h < RowGet(bh, "start", DEFAULT_START_HOUR)
       \/ h > RowGet(bh, "end", DEFAULT_END_HOUR)

\* business_hours.get("enabled") and (current_hour < start_hour or
\* current_hour >= end_hour)
OutsideBusinessHours(h, bh) ==
    /\ RowGet(bh, "enabled", FALSE)
    /\ \/ h < RowGet(bh, "start", DEFAULT_START_HOUR)
       \/ h >= RowGet(bh, "end", DEFAULT_END_HOUR)

\* the for loop over the agents takes the next agent, or the tick is over
NextAgent(i) == IF i = Len(Agents) THEN 0 ELSE i + 1


\* ------------------------------------------------------------------------
\* Init
\* ------------------------------------------------------------------------
InitBufferWith(registered) ==
    /\ bufHandlers = registered
    /\ buf = <<>>
    /\ bufTTL = NoTTL
    /\ lock = FALSE
    /\ lockTTL = 0
    /\ lockOwner = "none"
    /\ notif = [w \in Watchers |-> 0]
    /\ ppc = "idle"
    /\ nextId = 0
    /\ wpc = [w \in Watchers |-> "listen"]
    /\ raw = [w \in Watchers |-> <<>>]
    /\ packet = [w \in Watchers |-> <<>>]
    /\ ret = [w \in Watchers |-> "-"]
    /\ delivCount = [m \in MsgIds |-> 0]
    /\ sincePush = BUFFER_TTL_SECONDS
    /\ winLo = 1
    /\ readLo = [w \in Watchers |-> 0]
    /\ readHi = [w \in Watchers |-> 0]
    /\ expiredWin = <<>>
    /\ pushRet = NoRet
    /\ storeUp = TRUE
    /\ pushAvailable = TRUE
    /\ pushClient = FALSE
    /\ preClear = [w \in Watchers |-> FALSE]
    /\ nidx = [w \in Watchers |-> 0]
    /\ nraised = [w \in Watchers |-> {}]

InitBuffer == InitBufferWith(StartupHandlers)

\* the processes that run a watchdog task: lifespan() has called start() on
\* the BufferWatchdog and on the ReengagementWatchdog of each process, the
\* buffer watcher has subscribed to the expiry events
WatchdogProcs == Watchers \cup Replicas

\* no tick over the agents has run yet
InitHoursWith(bhs) ==
    /\ business_hours = bhs
    /\ agentAttempts = [a \in Elems(Agents) |-> 0]
    /\ firedCount = [a \in Elems(Agents) |-> 0]
    /\ current_hour = 0
    /\ hourPos = 0
    /\ hourStage = "gate"

\* every agent without business hours
InitHoursIdle == InitHoursWith([a \in Elems(Agents) |-> [k \in {} |-> 0]])

\* ------------------------------------------------------------------------
\* BufferedMessagePacket.combined_text; strings are sequences of characters
\* ------------------------------------------------------------------------
ContentTypes == {"text", "audio", "image"}

\* StandardMessage.content: "" (the default) or a text
Contents == {<<>>, <<"a">>, <<"b">>}

PacketMessages == [content_type : ContentTypes, content : Contents]

\* the messages of a packet: get_buffer builds none from an empty list
Packets == UNION {[1..n -> PacketMessages] : n \in 1..MaxMessages}

\* sep.join(texts)
RECURSIVE Join(_, _)
Join(sep, texts) ==
    IF texts = <<>> THEN <<>>
    ELSE IF Len(texts) = 1 THEN texts[1]
    ELSE texts[1] \o sep \o Join(sep, Tail(texts))

\* faulty variant: the content_type test left out
TextsOfAnyType(messages) ==
    LET kept == SelectSeq(messages, LAMBDA m : m.content # <<>>)
    IN  [i \in 1..Len(kept) |-> kept[i].content]

\* [m.content for m in self.messages if m.content and m.content_type == "text"]
TextsOf(messages) ==
    LET kept == SelectSeq(messages,
                          LAMBDA m : m.content # <<>> /\ m.content_type = "text")
    IN  [i \in 1..Len(kept) |-> kept[i].content]

\* return " ".join(texts)
CombinedTextOf(messages) == Join(<<" ">>, TextsOf(messages))

\* ------------------------------------------------------------------------
\* The keys of the store and what _watch_loop does with an expired key;
\* strings are sequences of tokens, ":" being one of them
\* ------------------------------------------------------------------------
KeyTokens == {"buffer", "chat", ":", "x"}

\* BUFFER_KEY_PREFIX = "buffer:chat:"
BUFFER_KEY_PREFIX == <<"buffer", ":", "chat", ":">>

\* the strings of 1 to n tokens taken from T
StringsOver(T, n) == UNION {[1..k -> T] : k \in 1..n}

\* tenant ids hold no ":"; chat ids come from the gateway's payload
TenantIds == StringsOver(KeyTokens \ {":"}, 2)
ChatIds == StringsOver(KeyTokens, MaxIdLen)

\* f"{BUFFER_KEY_PREFIX}{tenant_id}:{chat_id}"
GetBufferKey(tenant_id, chat_id) == BUFFER_KEY_PREFIX \o tenant_id \o <<":">> \o chat_id

\* f"lock:buffer:{tenant_id}:{chat_id}"
GetLockKey(tenant_id, chat_id) ==
    <<"lock", ":", "buffer", ":">> \o tenant_id \o <<":">> \o chat_id

\* "campaign:rate_limit:{campaign_id}"
RateLimitKey(campaign_id) == <<"campaign", ":", "rate_limit", ":">> \o campaign_id

\* key.startswith(prefix)
StartsWith(key, prefix) ==
    Len(key) >= Len(prefix) /\ SubSeq(key, 1, Len(prefix)) = prefix

\* str.replace(old, ""): every occurrence of old goes, scanning from the left
RECURSIVE Replace(_, _)
Replace(str, old) ==
    IF str = <<>> THEN <<>>
    ELSE IF StartsWith(str, old)
    THEN Replace(SubSeq(str, Len(old) + 1, Len(str)), old)
    ELSE <<Head(str)>> \o Replace(Tail(str), old)

\* str.split(":", 1): cut at the first ":", or the string alone
SplitOnce(str) ==
    LET colons == {i \in 1..Len(str) : str[i] = ":"}
    IN  IF colons = {} THEN <<str>>
        ELSE LET i == CHOOSE j \in colons : \A k \in colons : j <= k
             IN  <<SubSeq(str, 1, i - 1), SubSeq(str, i + 1, Len(str))>>

NoGetBuffer == [called |-> FALSE, tenant_id |-> <<>>, chat_id |-> <<>>]

\* _watch_loop's body for one expired key: the get_buffer call it makes
WatchKey(key) ==
    IF ~StartsWith(key, BUFFER_KEY_PREFIX) THEN NoGetBuffer
    ELSE LET parts == SplitOnce(Replace(key, BUFFER_KEY_PREFIX))
         IN  IF Len(parts) # 2 THEN NoGetBuffer
             ELSE [called |-> TRUE, tenant_id |-> parts[1], chat_id |-> parts[2]]

\* the keys with a TTL that the program writes for a tenant and a chat
ExpiringKeys(tenant_id, chat_id) ==
    {[kind |-> "buffer", key |-> GetBufferKey(tenant_id, chat_id)],
     [kind |-> "lock", key |-> GetLockKey(tenant_id, chat_id)],
     [kind |-> "rate_limit", key |-> RateLimitKey(chat_id)]}

\* no service call observed and no function applied yet
NoSvcCall == [op |-> "none", result |-> 0, contacted |-> FALSE]
NoCalc == [fn |-> "none"]

InitCalls == svcCall = NoSvcCall /\ calc = NoCalc

InitTasks ==
    wd = [p \in WatchdogProcs |->
            [running |-> TRUE, task |-> "running", stop |-> "idle",
             subscribed |-> p \in Watchers, cut |-> FALSE]]

\* IntelligentDelayService.__init__: empty registries
InitDelay ==
    /\ progCounter = [p \in DelayPrefixes |-> 0]
    /\ rateSignals = [k \in DelayIds |-> 0]
    /\ dcall = NoCall
    /\ activeDelays = [id \in DelayIds |-> NoTask]
    /\ tpc = [t \in DelayTasks |-> "idle"]
    /\ tdelay = [t \in DelayTasks |-> NoDelay]
    /\ cancelReq = [t \in DelayTasks |-> FALSE]
    /\ tresult = [t \in DelayTasks |-> NoResult]
    /\ cancelSeen = [t \in DelayTasks |-> FALSE]

\* a campaign just set to running by schedule_campaign, its contacts queued
InitCampaignWith(batchSize, volume, counter, started) ==
    /\ campaign = [status |-> "running", current_batch |-> 0,
                   batch_size |-> batchSize, max_daily_volume |-> volume]
    /\ taskStatus = [t \in TaskIds |-> "pending"]
    /\ taskBatch = [t \in TaskIds |-> QueuedBatchNumber(t, batchSize)]
    /\ taskError = [t \in TaskIds |-> ""]
    /\ dailyCounter = counter
    /\ running = started
    /\ cpc = [w \in Dispatchers |-> "idle"]
    /\ snap = [w \in Dispatchers |-> NoSnap]
    /\ dailySent = [w \in Dispatchers |-> 0]
    /\ batch = [w \in Dispatchers |-> <<>>]
    /\ idx = [w \in Dispatchers |-> 0]
    /\ exc = [w \in Dispatchers |-> ""]
    /\ sendCount = [t \in TaskIds |-> 0]
    /\ attempted = [w \in Dispatchers |-> {}]
    /\ raised = [w \in Dispatchers |-> {}]

InitCampaignIdle ==
    /\ InitCampaignWith(1, 10, 0, {})
    /\ redisClient = [w \in Dispatchers |-> "client"]

\* one dispatcher process (get_campaign_dispatcher is a singleton), every
\* configuration, with or without a redis client handed to the constructor
InitCampaign ==
    /\ \E b \in BatchSizes, v \in DailyVolumes, c \in StartCounters :
          InitCampaignWith(b, v, c, {"d1"})
    /\ redisClient \in [Dispatchers -> {"none", "client"}]
    /\ redisClient["d2"] = "client"

\* an active AI conversation of an agent with re-engagement enabled
InitReengagementWith(maxAtt) ==
    /\ agentMax = maxAtt
    /\ convActive = TRUE
    /\ silent = FALSE
    /\ lastSender = "none"
    /\ attempts = 0
    /\ rpc = [e \in Emitters |-> "idle"]
    /\ convRow = [e \in Emitters |-> 0]
    /\ ev = [e \in Emitters |-> NoEvent]
    /\ hidx = [e \in Emitters |-> 0]
    /\ events = <<>>
    /\ verdict = [replica |-> "-", outcome |-> "-"]
    /\ invoked = [e \in Emitters |-> <<>>]
    /\ hraised = [e \in Emitters |-> {}]
    /\ sinceFollowUp = TRUE

InitReengagementIdle == InitReengagementWith(1)

InitReengagement == \E m \in MaxAttemptsValues : InitReengagementWith(m)

Init == InitBuffer /\ InitDelay /\ InitTasks /\ InitCalls /\ InitHoursIdle /\ dargs = DefaultArgs /\ InitCampaignIdle
        /\ InitReengagementIdle

\* the delay service under every combination of caller arguments
InitDelayArgs == InitBuffer /\ InitDelay /\ InitTasks /\ InitCalls /\ InitHoursIdle /\ dargs \in DelayArgs /\ InitCampaignIdle
                 /\ InitReengagementIdle

InitDispatcher == InitBuffer /\ InitDelay /\ InitTasks /\ InitCalls /\ InitHoursIdle /\ dargs = DefaultArgs /\ InitCampaign
                  /\ InitReengagementIdle

InitWatchdog == InitBuffer /\ InitDelay /\ InitTasks /\ InitCalls /\ InitHoursIdle /\ dargs = DefaultArgs /\ InitCampaignIdle
                /\ InitReengagement

\* ------------------------------------------------------------------------
\* push_message: RPUSH, then EXPIRE, then LLEN (three store commands)
\* ------------------------------------------------------------------------
\* faulty variant: no try/except around the store commands
PushResultOnErrorRaises(count) == Raised

\* except Exception: logged, return 0
PushResultOnError(count) == 0

\* receive_webhook after push_message: a returned count lets the loop go on
\* to the next message or to the WebhookResponse without an await; an
\* exception would leave the request aborted
WebhookAfterPush(r) == IF r = Raised THEN "aborted" ELSE "idle"

\* redis = await self._get_redis_client(); None -> return 0
PushGetClient ==
    /\ ppc = "idle"
    /\ nextId < MaxPush
    /\ ~pushAvailable \/ ~pushClient
    /\ IF ~pushAvailable
       THEN /\ pushRet' = 0
            /\ ppc' = WebhookAfterPush(0)
            /\ UNCHANGED <<pushAvailable, pushClient>>
       ELSE IF storeUp
       THEN /\ ppc' = "client"
            /\ pushClient' = TRUE
            /\ UNCHANGED <<pushAvailable, pushRet>>
       ELSE \* get_redis(): the ping fails, the service marks itself unavailable
            /\ pushRet' = 0
            /\ ppc' = WebhookAfterPush(0)
            /\ pushAvailable' = FALSE
            /\ UNCHANGED pushClient
    /\ UNCHANGED <<buf, bufTTL, lock, lockTTL, lockOwner, notif, nextId, wpc, raw, packet,
                   ret, delivCount, sincePush, winLo, readLo, readHi, expiredWin,
                   storeUp>>
    /\ UNCHANGED <<preClear, notifyVars, delayVars, campVars, reVars, stopVars, waitVars, hoursVars, callVars>>

\* a client cached by an earlier call is returned without an await, so
\* the call goes straight to its first store command
PushRpush ==
    /\ \/ ppc = "client"
       \/ ppc = "idle" /\ nextId < MaxPush /\ pushAvailable /\ pushClient
    /\ IF storeUp
       THEN /\ nextId' = nextId + 1
            /\ buf' = Rpush(buf, Serialize(nextId + 1))
            \* RPUSH creates a missing key without a TTL and keeps the TTL of a key
            /\ bufTTL' = IF buf = <<>> THEN NoTTL ELSE bufTTL
            /\ winLo' = IF buf = <<>> THEN nextId + 1 ELSE winLo
            /\ expiredWin' = <<>>
            /\ ppc' = "rpushed"
            /\ UNCHANGED pushRet
       ELSE /\ pushRet' = PushResultOnError(0)
            /\ ppc' = WebhookAfterPush(PushResultOnError(0))
            /\ UNCHANGED <<nextId, buf, bufTTL, winLo, expiredWin>>
    /\ UNCHANGED <<lock, lockTTL, lockOwner, notif, wpc, raw, packet, ret, delivCount,
                   sincePush, readLo, readHi, storeUp, pushAvailable, pushClient>>
    /\ UNCHANGED <<preClear, notifyVars, delayVars, campVars, reVars, stopVars, waitVars, hoursVars, callVars>>

PushExpire ==
    /\ ppc = "rpushed"
    /\ IF storeUp
       THEN \* EXPIRE on a missing key does nothing
            /\ bufTTL' = IF buf = <<>> THEN NoTTL ELSE BUFFER_TTL_SECONDS
            /\ sincePush' = IF buf = <<>> THEN sincePush ELSE 0
            /\ ppc' = "expired"
            /\ UNCHANGED pushRet
       ELSE /\ pushRet' = PushResultOnError(1)
            /\ ppc' = WebhookAfterPush(PushResultOnError(1))
            /\ UNCHANGED <<bufTTL, sincePush>>
    /\ UNCHANGED <<buf, lock, lockTTL, lockOwner, notif, nextId, wpc, raw, packet, ret,
                   delivCount, winLo, readLo, readHi, expiredWin, storeUp,
                   pushAvailable, pushClient>>
    /\ UNCHANGED <<preClear, notifyVars, delayVars, campVars, reVars, stopVars, waitVars, hoursVars, callVars>>

\* count = await redis.llen(key); return count
PushLlen ==
    /\ ppc = "expired"
    /\ IF storeUp
       THEN \* return count: the length of the list, never negative
            /\ ppc' = WebhookAfterPush(Len(buf))
            /\ UNCHANGED pushRet
       ELSE /\ pushRet' = PushResultOnError(2)
            /\ ppc' = WebhookAfterPush(PushResultOnError(2))
    /\ UNCHANGED <<buf, bufTTL, lock, lockTTL, lockOwner, notif, nextId, wpc, raw, packet,
                   ret, delivCount, sincePush, winLo, readLo, readHi, expiredWin,
                   storeUp, pushAvailable, pushClient>>
    /\ UNCHANGED <<preClear, notifyVars, delayVars, campVars, reVars, stopVars, waitVars, hoursVars, callVars>>

\* the store becomes unreachable, or reachable again
StoreGoesDown ==
    /\ storeUp
    /\ storeUp' = FALSE
    /\ UNCHANGED <<buf, bufTTL, lock, lockTTL, lockOwner, notif, ppc, nextId, wpc, raw,
                   packet, ret, delivCount, sincePush, winLo, readLo, readHi,
                   expiredWin, pushRet, pushAvailable, pushClient>>
    /\ UNCHANGED <<preClear, notifyVars, delayVars, campVars, reVars, stopVars, waitVars, hoursVars, callVars>>

StoreComesBack ==
    /\ ~storeUp
    /\ storeUp' = TRUE
    /\ UNCHANGED <<buf, bufTTL, lock, lockTTL, lockOwner, notif, ppc, nextId, wpc, raw,
                   packet, ret, delivCount, sincePush, winLo, readLo, readHi,
                   expiredWin, pushRet, pushAvailable, pushClient>>
    /\ UNCHANGED <<preClear, notifyVars, delayVars, campVars, reVars, stopVars, waitVars, hoursVars, callVars>>

\* ------------------------------------------------------------------------
\* clear_buffer: DEL of the buffer key
\* ------------------------------------------------------------------------
\* DEL answers the number of keys it removed
Del(list) == IF list = <<>> THEN 0 ELSE 1

\* return deleted > 0
ClearResult(deleted) == deleted > 0

\* a get_buffer that has read the list and not yet handed its packet over
InFlightRead(w) == raw[w] # <<>> \/ packet[w] # <<>>

\* deleted = await redis.delete(key): one command on the buffer key; the
\* lock key is not looked at and a running get_buffer is not told.
\* observed: whether the history variable preClear follows the call
ClearBuffer(observed) ==
    /\ buf' = <<>>
    /\ bufTTL' = NoTTL
    /\ preClear' = [w \in Watchers |->
                      preClear[w] \/ (observed /\ InFlightRead(w))]
    /\ UNCHANGED <<lock, lockTTL, lockOwner, notif, ppc, nextId, wpc, raw, packet, ret,
                   delivCount, sincePush, winLo, readLo, readHi, expiredWin>>
    /\ UNCHANGED <<faultVars, notifyVars, delayVars, campVars, reVars, stopVars, waitVars, hoursVars, callVars>>

\* ------------------------------------------------------------------------
\* get_buffer, peek_buffer and clear_buffer called through the service,
\* each beginning with _get_redis_client
\* ------------------------------------------------------------------------
ServiceOps == {"get_buffer", "peek_buffer", "clear_buffer"}

\* faulty variant: the _available flag not consulted, get_redis() tried again
ServiceClientRetries(available, cached, up) ==
    IF cached THEN "cached"
    ELSE IF up THEN "connected" ELSE "failed"

\* _get_redis_client: None once _available is False; the cached client;
\* else get_redis(), whose ping answers or fails
ServiceClient(available, cached, up) ==
    IF ~available THEN "none"
    ELSE IF cached THEN "cached"
    ELSE IF up THEN "connected" ELSE "failed"

\* what the call returns with the store answering: the number of messages
\* of the packet (0 for None), the LLEN count, DEL's count > 0 as 1 or 0
ServiceResult(op, list, lockExists) ==
    CASE op = "get_buffer" ->
            IF SetNxAcquires(lockExists) THEN Len(ParseMessages(LrangeAll(list))) ELSE 0
      [] op = "peek_buffer" -> Len(list)
      [] OTHER -> IF Del(list) > 0 THEN 1 ELSE 0

\* whether the call removes the buffer key
ServiceDeletes(op, lockExists) ==
    \/ op = "clear_buffer"
    \/ op = "get_buffer" /\ SetNxAcquires(lockExists)

\* one call of op from its first line to its return: without a client it
\* returns None / 0 / False; a store command that raises is caught and
\* gives the same
ServiceCall(op) ==
    LET c == ServiceClient(pushAvailable, pushClient, storeUp)
        answered == c \in {"cached", "connected"} /\ storeUp
    IN  /\ pushAvailable' = IF c = "failed" THEN FALSE ELSE pushAvailable
        /\ pushClient' = IF c = "connected" THEN TRUE ELSE pushClient
        /\ svcCall' = [op |-> op,
                       result |-> IF answered THEN ServiceResult(op, buf, lock) ELSE 0,
                       contacted |-> c # "none"]
        /\ buf' = IF answered /\ ServiceDeletes(op, lock) THEN <<>> ELSE buf
        /\ bufTTL' = IF answered /\ ServiceDeletes(op, lock) THEN NoTTL ELSE bufTTL
        /\ UNCHANGED <<lock, lockTTL, lockOwner, notif, ppc, nextId, wpc, raw, packet,
                       ret, delivCount, sincePush, winLo, readLo, readHi, expiredWin,
                       pushRet, storeUp, calc>>
        /\ UNCHANGED <<preClear, notifyVars, delayVars, campVars, reVars, stopVars, waitVars, hoursVars>>

\* ------------------------------------------------------------------------
\* The store's clock: one second passes; keys whose TTL runs out are
\* deleted, and the expiry of the buffer key is published to every
\* subscriber of __keyevent@0__:expired
\* ------------------------------------------------------------------------
BufExpires == buf # <<>> /\ bufTTL = 1

Tick ==
    /\ bufTTL' = IF BufExpires THEN NoTTL
                 ELSE IF buf # <<>> /\ bufTTL > 1 THEN bufTTL - 1 ELSE bufTTL
    /\ buf' = IF BufExpires THEN <<>> ELSE buf
    /\ notif' = IF BufExpires
                THEN [w \in Watchers |->
                        IF wd[w].subscribed THEN notif[w] + 1 ELSE notif[w]]
                ELSE notif
    /\ expiredWin' = IF BufExpires THEN ParseMessages(buf) ELSE expiredWin
    /\ lock' = IF lock /\ lockTTL = 1 THEN FALSE ELSE lock
    /\ lockOwner' = IF lock /\ lockTTL = 1 THEN "none" ELSE lockOwner
    /\ lockTTL' = IF lock THEN lockTTL - 1 ELSE lockTTL
    /\ sincePush' = IF sincePush < BUFFER_TTL_SECONDS THEN sincePush + 1 ELSE sincePush
    /\ UNCHANGED <<ppc, nextId, wpc, raw, packet, ret, delivCount, winLo,
                   readLo, readHi>>
    /\ UNCHANGED <<faultVars, preClear, notifyVars, delayVars, campVars, reVars, stopVars, waitVars, hoursVars, callVars>>

\* ------------------------------------------------------------------------
\* BufferWatchdog._watch_loop and MessageBufferService.get_buffer
\* ------------------------------------------------------------------------

\* async for message in pubsub.listen(): a buffer-key expiry is taken from
\* the subscription and get_buffer(tenant_id, chat_id) is called
WatchRecv(w) ==
    /\ wd[w].task = "running"
    /\ wpc[w] = "listen"
    /\ notif[w] > 0
    /\ notif' = [notif EXCEPT ![w] = @ - 1]
    /\ wpc' = [wpc EXCEPT ![w] = "acquire"]
    /\ raw' = [raw EXCEPT ![w] = <<>>]
    /\ packet' = [packet EXCEPT ![w] = <<>>]
    /\ UNCHANGED <<buf, bufTTL, lock, lockTTL, lockOwner, ppc, nextId, ret, delivCount,
                   sincePush, winLo, readLo, readHi, expiredWin>>
    /\ UNCHANGED <<faultVars, preClear, notifyVars, delayVars, campVars, reVars, stopVars, waitVars, hoursVars, callVars>>

\* lock_acquired = await redis.set(lock_key, "1", ex=5, nx=True)
\* observed: whether the history variable lockOwner follows the call
GetAcquire(w, observed) ==
    /\ wd[w].task = "running"
    /\ wpc[w] = "acquire"
    /\ IF SetNxAcquires(lock)
       THEN /\ lock' = TRUE
            /\ lockTTL' = LOCK_TTL_SECONDS
            /\ lockOwner' = IF observed THEN w ELSE "none"
            /\ wpc' = [wpc EXCEPT ![w] = "lrange"]
            /\ ret' = ret
       ELSE \* "Buffer already being processed": return None
            /\ UNCHANGED <<lock, lockTTL, lockOwner>>
            /\ wpc' = [wpc EXCEPT ![w] = "listen"]
            /\ ret' = [ret EXCEPT ![w] = "locked"]
    /\ UNCHANGED <<buf, bufTTL, notif, ppc, nextId, raw, packet, delivCount,
                   sincePush, winLo, readLo, readHi, expiredWin>>
    /\ UNCHANGED <<faultVars, preClear, notifyVars, delayVars, campVars, reVars, stopVars, waitVars, hoursVars, callVars>>

\* messages_raw = await redis.lrange(key, 0, -1); if not messages_raw: return None
GetLrange(w) ==
    /\ wd[w].task = "running"
    /\ wpc[w] = "lrange"
    /\ raw' = [raw EXCEPT ![w] = LrangeAll(buf)]
    /\ wpc' = [wpc EXCEPT ![w] = IF LrangeAll(buf) = <<>> THEN "release" ELSE "delete"]
    /\ readLo' = [readLo EXCEPT ![w] = IF buf = <<>> THEN 0 ELSE winLo]
    /\ readHi' = [readHi EXCEPT ![w] = IF buf = <<>> THEN 0 ELSE nextId]
    /\ UNCHANGED <<buf, bufTTL, lock, lockTTL, lockOwner, notif, ppc, nextId, packet, ret,
                   delivCount, sincePush, winLo, expiredWin>>
    /\ UNCHANGED <<faultVars, preClear, notifyVars, delayVars, campVars, reVars, stopVars, waitVars, hoursVars, callVars>>

\* await redis.delete(key), then the parse loop builds the packet
GetDelete(w) ==
    /\ wd[w].task = "running"
    /\ wpc[w] = "delete"
    /\ buf' = <<>>
    /\ bufTTL' = NoTTL
    /\ packet' = [packet EXCEPT ![w] = ParseMessages(raw[w])]
    /\ wpc' = [wpc EXCEPT ![w] = "release"]
    /\ UNCHANGED <<lock, lockTTL, lockOwner, notif, ppc, nextId, raw, ret, delivCount,
                   sincePush, winLo, readLo, readHi, expiredWin>>
    /\ UNCHANGED <<faultVars, preClear, notifyVars, delayVars, campVars, reVars, stopVars, waitVars, hoursVars, callVars>>

\* finally: await redis.delete(lock_key); then get_buffer returns, and
\* the watch loop goes on to _notify_handlers when the packet is not None
GetRelease(w) ==
    /\ wd[w].task = "running"
    /\ wpc[w] = "release"
    /\ lock' = LockAfterRelease(lock)
    /\ lockTTL' = IF LockAfterRelease(lock) THEN lockTTL ELSE 0
    /\ lockOwner' = IF LockAfterRelease(lock) THEN lockOwner ELSE "none"
    \* None for an empty list, None after a logged error, or the packet
    /\ ret' = [ret EXCEPT ![w] = IF packet[w] # <<>> THEN "packet"
                                 ELSE IF raw[w] = <<>> THEN "empty" ELSE "error"]
    /\ wpc' = [wpc EXCEPT ![w] = IF packet[w] = <<>> THEN "listen" ELSE "notify"]
    /\ raw' = [raw EXCEPT ![w] = <<>>]
    \* if packet: _notify_handlers starts at the first registered handler
    /\ nidx' = [nidx EXCEPT ![w] = IF packet[w] = <<>> THEN 0 ELSE 1]
    /\ UNCHANGED <<buf, bufTTL, notif, ppc, nextId, packet, delivCount,
                   sincePush, winLo, readLo, readHi, expiredWin, nraised,
                   bufHandlers>>
    /\ UNCHANGED <<faultVars, preClear, delayVars, campVars, reVars, stopVars, waitVars, hoursVars, callVars>>

\* faulty variant: the parse loop outside the try/finally
AfterParseErrorSkipsFinally == "listen"

\* an exception of the parse loop is inside try/finally: the lock release
\* runs before the outer except Exception turns it into return None
AfterParseError == "release"

\* await redis.delete(key), then json.loads / data[...] / fromisoformat
\* raises on an entry of the list: no packet is built
GetParseRaises(w) ==
    /\ wd[w].task = "running"
    /\ wpc[w] = "delete"
    /\ buf' = <<>>
    /\ bufTTL' = NoTTL
    /\ wpc' = [wpc EXCEPT ![w] = AfterParseError]
    /\ readLo' = [readLo EXCEPT ![w] = 0]
    /\ readHi' = [readHi EXCEPT ![w] = 0]
    /\ UNCHANGED <<lock, lockTTL, lockOwner, notif, ppc, nextId, raw, packet, ret,
                   delivCount, sincePush, winLo, expiredWin>>
    /\ UNCHANGED <<faultVars, preClear, notifyVars, delayVars, campVars, reVars, stopVars, waitVars, hoursVars, callVars>>

\* faulty variant: a handler's exception leaves the for loop
NotifyIndexAfterRaiseAborts(i, n) == n + 1

\* except Exception: logged; the for loop takes the next handler
NotifyIndexAfterRaise(i, n) == i + 1

\* await self.buffer_service._notify_handlers(packet): one step per
\* await handler(packet), which returns or raises; after the last handler
\* the watch loop is back at pubsub.listen()
NotifyHandlers(w) ==
    /\ wd[w].task = "running"
    /\ wpc[w] = "notify"
    /\ \E outcome \in {"returns", "raises"} :
         LET h == bufHandlers[nidx[w]]
             next == IF outcome = "raises"
                     THEN NotifyIndexAfterRaise(nidx[w], Len(bufHandlers))
                     ELSE nidx[w] + 1
         IN  IF next <= Len(bufHandlers)
             THEN /\ nidx' = [nidx EXCEPT ![w] = next]
                  /\ nraised' = [nraised EXCEPT ![w] =
                                    IF outcome = "raises" THEN @ \cup {h} ELSE @]
                  /\ UNCHANGED <<wpc, packet, delivCount, readLo, readHi,
                                 preClear>>
             ELSE /\ nidx' = [nidx EXCEPT ![w] = 0]
                  /\ nraised' = [nraised EXCEPT ![w] = {}]
                  /\ delivCount' = [m \in MsgIds |->
                                      IF m \in Elems(packet[w])
                                      THEN delivCount[m] + 1 ELSE delivCount[m]]
                  /\ wpc' = [wpc EXCEPT ![w] = "listen"]
                  /\ packet' = [packet EXCEPT ![w] = <<>>]
                  /\ readLo' = [readLo EXCEPT ![w] = 0]
                  /\ readHi' = [readHi EXCEPT ![w] = 0]
                  /\ preClear' = [preClear EXCEPT ![w] = FALSE]
    /\ UNCHANGED <<buf, bufTTL, lock, lockTTL, lockOwner, notif, ppc, nextId, raw,
                   ret, sincePush, winLo, expiredWin, bufHandlers>>
    /\ UNCHANGED <<faultVars, delayVars, campVars, reVars, stopVars, waitVars, hoursVars, callVars>>

NextBuffer ==
    \/ PushGetClient
    \/ PushRpush
    \/ PushExpire
    \/ PushLlen
    \/ ClearBuffer(FALSE)
    \/ Tick
    \/ \E w \in Watchers : WatchRecv(w)
    \/ \E w \in Watchers : GetAcquire(w, FALSE)
    \/ \E w \in Watchers : GetLrange(w)
    \/ \E w \in Watchers : GetDelete(w)
    \/ \E w \in Watchers : GetRelease(w)
    \/ \E w \in Watchers : NotifyHandlers(w)

SpecBuffer == Init /\ [][NextBuffer]_vars

\* the same processes, with every clear_buffer call followed by preClear
NextClear ==
    \/ PushGetClient
    \/ PushRpush
    \/ PushExpire
    \/ PushLlen
    \/ ClearBuffer(TRUE)
    \/ Tick
    \/ \E w \in Watchers : WatchRecv(w)
    \/ \E w \in Watchers : GetAcquire(w, FALSE)
    \/ \E w \in Watchers : GetLrange(w)
    \/ \E w \in Watchers : GetDelete(w)
    \/ \E w \in Watchers : GetRelease(w)
    \/ \E w \in Watchers : NotifyHandlers(w)

SpecClear == Init /\ [][NextClear]_vars

\* the same processes, with every lock acquisition followed by lockOwner
NextLock ==
    \/ PushGetClient
    \/ PushRpush
    \/ PushExpire
    \/ PushLlen
    \/ ClearBuffer(FALSE)
    \/ Tick
    \/ \E w \in Watchers : WatchRecv(w)
    \/ \E w \in Watchers : GetAcquire(w, TRUE)
    \/ \E w \in Watchers : GetLrange(w)
    \/ \E w \in Watchers : GetDelete(w)
    \/ \E w \in Watchers : GetRelease(w)
    \/ \E w \in Watchers : NotifyHandlers(w)

SpecLock == Init /\ [][NextLock]_vars

\* pushes and the two watchers' get_buffer calls; the parse loop may raise
\* in the process w1 (the two processes run the same code)
NextParse ==
    \/ PushGetClient
    \/ PushRpush
    \/ PushExpire
    \/ PushLlen
    \/ Tick
    \/ \E w \in Watchers : WatchRecv(w)
    \/ \E w \in Watchers : GetAcquire(w, FALSE)
    \/ \E w \in Watchers : GetLrange(w)
    \/ \E w \in Watchers : GetDelete(w)
    \/ GetParseRaises("w1")
    \/ \E w \in Watchers : GetRelease(w)
    \/ \E w \in Watchers : NotifyHandlers(w)

SpecParse == Init /\ [][NextParse]_vars


\* push_message against a store that may be unreachable at any command
NextPushFaults ==
    \/ PushGetClient
    \/ PushRpush
    \/ PushExpire
    \/ PushLlen
    \/ StoreGoesDown
    \/ StoreComesBack
    \/ Tick

SpecPushFaults == Init /\ [][NextPushFaults]_vars

\* every call of the service against a store that may be unreachable
NextSticky ==
    \/ PushGetClient
    \/ PushRpush
    \/ PushExpire
    \/ PushLlen
    \/ \E op \in ServiceOps : ServiceCall(op)
    \/ StoreGoesDown
    \/ StoreComesBack
    \/ Tick

SpecSticky == Init /\ [][NextSticky]_vars

\* ------------------------------------------------------------------------
\* combined_text read on a packet
\* ------------------------------------------------------------------------
InitCombined ==
    /\ InitBuffer /\ InitDelay /\ InitTasks /\ InitHoursIdle /\ dargs = DefaultArgs
    /\ InitCampaignIdle /\ InitReengagementIdle
    /\ svcCall = NoSvcCall
    /\ calc \in {[fn |-> "none", arg |-> m, out |-> <<>>] : m \in Packets}

CombinedText ==
    /\ calc.fn = "none"
    /\ calc' = [fn |-> "combined_text", arg |-> calc.arg,
                out |-> CombinedTextOf(calc.arg)]
    /\ UNCHANGED <<svcCall, bufVars, delayVars, campVars, reVars, stopVars, waitVars, hoursVars>>

SpecCombined == InitCombined /\ [][CombinedText]_vars

\* ------------------------------------------------------------------------
\* an expiry notification reaches the watch loop
\* ------------------------------------------------------------------------
InitKeys ==
    /\ InitBuffer /\ InitDelay /\ InitTasks /\ InitHoursIdle /\ dargs = DefaultArgs
    /\ InitCampaignIdle /\ InitReengagementIdle
    /\ svcCall = NoSvcCall
    /\ \E t \in TenantIds, c \in ChatIds : \E e \in ExpiringKeys(t, c) :
          calc = [fn |-> "none", tenant_id |-> t, chat_id |-> c, kind |-> e.kind,
                  key |-> e.key, out |-> NoGetBuffer]

ExpiredKeyReceived ==
    /\ calc.fn = "none"
    /\ calc' = [calc EXCEPT !.fn = "watch", !.out = WatchKey(calc.key)]
    /\ UNCHANGED <<svcCall, bufVars, delayVars, campVars, reVars, stopVars, waitVars, hoursVars>>

SpecKeys == InitKeys /\ [][ExpiredKeyReceived]_vars

\* ------------------------------------------------------------------------
\* IntelligentDelayService: delay() computes the duration and sleeps it
\* ------------------------------------------------------------------------
DelayCall(id) ==
    LET min_s == EffectiveMin(dargs.min_seconds)
        max_s == EffectiveMax(dargs.max_seconds)
        count == progCounter[PrefixOf(id)]
    IN  /\ dargs.strategy = "progressive" => count < MaxProgCalls
        /\ \E d \in CalculateDelay(min_s, max_s, dargs.strategy, id, progCounter, rateSignals) :
              dcall' = [called |-> TRUE, id |-> id, min_s |-> min_s, max_s |-> max_s,
                        count |-> count, signal |-> SignalOf(rateSignals, id),
                        base |-> IF dargs.strategy = "progressive"
                                 THEN ProgressiveBase(min_s, max_s, count) ELSE 0,
                        seconds |-> d]
        /\ progCounter' = IF dargs.strategy = "progressive"
                          THEN [progCounter EXCEPT ![PrefixOf(id)] = count + 1]
                          ELSE progCounter
        /\ activeDelays' = Unregister(activeDelays, id)
        /\ UNCHANGED <<tpc, tdelay, cancelReq, tresult, cancelSeen>>
        /\ UNCHANGED <<rateSignals, dargs, bufVars, campVars, reVars, stopVars, waitVars, hoursVars, callVars>>

SetRateLimitSignal(key, multiplier) ==
    /\ rateSignals' = [rateSignals EXCEPT ![key] = ClampMultiplier(multiplier)]
    /\ UNCHANGED <<progCounter, dcall, dargs, taskVars, bufVars, campVars, reVars, stopVars, waitVars, hoursVars, callVars>>

\* reset_progressive_counter(prefix): drops the counters whose key starts with it
ResetProgressiveCounter(prefix) ==
    /\ progCounter[prefix] > 0
    /\ progCounter' = [progCounter EXCEPT ![prefix] = 0]
    /\ UNCHANGED <<rateSignals, dcall, dargs, taskVars, bufVars, campVars, reVars, stopVars, waitVars, hoursVars, callVars>>

NextDelay ==
    \/ \E id \in DelayIds : DelayCall(id)
    \/ \E k \in {<<"batch", "1">>}, m \in MultiplierArgs : SetRateLimitSignal(k, m)
    \/ \E p \in DelayPrefixes : ResetProgressiveCounter(p)

SpecDelay == InitDelayArgs /\ [][NextDelay]_vars

\* ------------------------------------------------------------------------
\* IntelligentDelayService: delay() step by step, one call per asyncio task,
\* and cancel_delay()
\* ------------------------------------------------------------------------
otherVarsDelay == <<bufVars, campVars, reVars, stopVars, waitVars, hoursVars, callVars>>

\* delay(): the duration is computed, the task registered, the sleep begins
DelayStart(t, id) ==
    LET min_s == EffectiveMin(dargs.min_seconds)
        max_s == EffectiveMax(dargs.max_seconds)
    IN  /\ tpc[t] = "idle"
        /\ \E d \in CalculateDelay(min_s, max_s, dargs.strategy, id, progCounter, rateSignals) :
              tdelay' = [tdelay EXCEPT ![t] = [id |-> id, seconds |-> d]]
        /\ activeDelays' = [activeDelays EXCEPT ![id] = t]
        /\ tpc' = [tpc EXCEPT ![t] = "sleeping"]
        /\ tresult' = [tresult EXCEPT ![t] = NoResult]
        /\ cancelSeen' = [cancelSeen EXCEPT ![t] = FALSE]
        /\ UNCHANGED <<progCounter, rateSignals, dargs, dcall, cancelReq>>
        /\ UNCHANGED otherVarsDelay

\* cancel_delay(id): a registered task gets task.cancel() and the entry goes;
\* an id without entry returns False
CancelDelay(id) ==
    /\ \E t \in DelayTasks : tpc[t] = "sleeping"
    /\ IF activeDelays[id] # NoTask
       THEN /\ cancelReq' = [cancelReq EXCEPT ![activeDelays[id]] = TRUE]
            /\ activeDelays' = [activeDelays EXCEPT ![id] = NoTask]
       ELSE UNCHANGED <<cancelReq, activeDelays>>
    /\ cancelSeen' = [t \in DelayTasks |->
                         cancelSeen[t] \/ (tpc[t] = "sleeping" /\ tdelay[t].id = id)]
    /\ UNCHANGED <<progCounter, rateSignals, dargs, dcall, tpc, tdelay, tresult>>
    /\ UNCHANGED otherVarsDelay

\* the task resumes from asyncio.sleep: with CancelledError if task.cancel()
\* was called, else after the planned duration; then the finally block
DelayReturns(t) ==
    /\ tpc[t] = "sleeping"
    /\ tresult' = [tresult EXCEPT ![t] =
                      IF cancelReq[t]
                      THEN [delay_id |-> tdelay[t].id, actual_duration_seconds |-> 0,
                            was_cancelled |-> TRUE]
                      ELSE [delay_id |-> tdelay[t].id,
                            actual_duration_seconds |-> tdelay[t].seconds,
                            was_cancelled |-> FALSE]]
    /\ cancelReq' = [cancelReq EXCEPT ![t] = FALSE]
    /\ activeDelays' = Unregister(activeDelays, tdelay[t].id)
    /\ tpc' = [tpc EXCEPT ![t] = "returned"]
    /\ UNCHANGED <<progCounter, rateSignals, dargs, dcall, tdelay, cancelSeen>>
    /\ UNCHANGED otherVarsDelay

\* the caller goes on with the DelayResult
CallerContinues(t) ==
    /\ tpc[t] = "returned"
    /\ tpc' = [tpc EXCEPT ![t] = "idle"]
    /\ tdelay' = [tdelay EXCEPT ![t] = NoDelay]
    /\ tresult' = [tresult EXCEPT ![t] = NoResult]
    /\ cancelSeen' = [cancelSeen EXCEPT ![t] = FALSE]
    /\ UNCHANGED <<progCounter, rateSignals, dargs, dcall, activeDelays, cancelReq>>
    /\ UNCHANGED otherVarsDelay

NextDelayTasks ==
    \/ \E t \in DelayTasks, id \in DelayIds : DelayStart(t, id)
    \/ \E id \in DelayIds : CancelDelay(id)
    \/ \E t \in DelayTasks : DelayReturns(t)
    \/ \E t \in DelayTasks : CallerContinues(t)

SpecDelayTasks == Init /\ [][NextDelayTasks]_vars


\* ------------------------------------------------------------------------
\* CampaignDispatcher: one tick of start() is _process_next_batch; the
\* durable store answers every call; the sender and the shared store may raise
\* ------------------------------------------------------------------------
CurrentTask(w) == batch[w][idx[w]]

\* where the for loop stands after delivery i of n
AfterDelivery(i, n) == IF i > n THEN "done" ELSE "sending"

\* campaigns ... eq("status", "running"): no row -> sleep(5) and return
SelectRunning(w) ==
    /\ w \in running
    /\ cpc[w] = "idle"
    /\ IF campaign.status = "running"
       THEN /\ snap' = [snap EXCEPT ![w] = SelectRow(campaign)]
            /\ cpc' = [cpc EXCEPT ![w] = "redis"]
            /\ attempted' = [attempted EXCEPT ![w] = {}]
            /\ raised' = [raised EXCEPT ![w] = {}]
       ELSE UNCHANGED <<snap, cpc, attempted, raised>>
    /\ UNCHANGED <<campaign, taskStatus, taskBatch, taskError, dailyCounter,
                   running, redisClient, dailySent, batch, idx, exc, sendCount>>
    /\ UNCHANGED <<bufVars, delayVars, reVars, stopVars, waitVars, hoursVars, callVars>>

\* _get_redis: without a client it reads settings.REDIS_URL, an attribute
\* Settings does not define (the field is redis_url); the AttributeError
\* leaves _process_next_batch and start() logs it and sleeps
GetRedis(w) ==
    /\ cpc[w] = "redis"
    /\ cpc' = [cpc EXCEPT ![w] = IF redisClient[w] = "none" THEN "idle" ELSE "limit"]
    /\ UNCHANGED <<campaign, taskStatus, taskBatch, taskError, dailyCounter,
                   running, redisClient, snap, dailySent, batch, idx, exc,
                   sendCount, attempted, raised>>
    /\ UNCHANGED <<bufVars, delayVars, reVars, stopVars, waitVars, hoursVars, callVars>>

\* daily_sent = get(rate_key) or 0; at or over daily_limit the tick returns
CheckDailyLimit(w) ==
    /\ cpc[w] = "limit"
    /\ dailySent' = [dailySent EXCEPT ![w] = dailyCounter]
    /\ cpc' = [cpc EXCEPT ![w] = IF LimitReached(dailyCounter, snap[w])
                                 THEN "idle" ELSE "fetch"]
    /\ UNCHANGED <<campaign, taskStatus, taskBatch, taskError, dailyCounter,
                   running, redisClient, snap, batch, idx, exc, sendCount,
                   attempted, raised>>
    /\ UNCHANGED <<bufVars, delayVars, reVars, stopVars, waitVars, hoursVars, callVars>>

\* the pending deliveries of the current batch
FetchBatch(w) ==
    /\ cpc[w] = "fetch"
    /\ LET found == PendingOfBatch(taskStatus, taskBatch, snap[w])
       IN  /\ batch' = [batch EXCEPT ![w] = found]
           /\ idx' = [idx EXCEPT ![w] = 1]
           /\ cpc' = [cpc EXCEPT ![w] = IF found = <<>> THEN "advance" ELSE "sending"]
    /\ UNCHANGED <<campaign, taskStatus, taskBatch, taskError, dailyCounter,
                   running, redisClient, snap, dailySent, exc, sendCount,
                   attempted, raised>>
    /\ UNCHANGED <<bufVars, delayVars, reVars, stopVars, waitVars, hoursVars, callVars>>

\* empty batch: current_batch = current_batch + 1 (of the selected dict);
\* no delivery has a batch_number of MaxBatch or more, so the batch numbers
\* from MaxBatch on are all alike and are kept as MaxBatch
AdvanceBatch(w) ==
    /\ cpc[w] = "advance"
    /\ campaign' = [campaign EXCEPT
                       !.current_batch =
                           Min2(RowGet(snap[w], "current_batch", 0) + 1, MaxBatch)]
    /\ cpc' = [cpc EXCEPT ![w] = "remaining"]
    /\ UNCHANGED <<taskStatus, taskBatch, taskError, dailyCounter, running,
                   redisClient, snap, dailySent, batch, idx, exc, sendCount,
                   attempted, raised>>
    /\ UNCHANGED <<bufVars, delayVars, reVars, stopVars, waitVars, hoursVars, callVars>>

\* remaining.count == 0 -> complete, else the batch pause
CheckRemaining(w) ==
    /\ cpc[w] = "remaining"
    /\ cpc' = [cpc EXCEPT ![w] = IF RemainingPending(taskStatus) = 0
                                 THEN "complete" ELSE "pause"]
    /\ UNCHANGED <<campaign, taskStatus, taskBatch, taskError, dailyCounter,
                   running, redisClient, snap, dailySent, batch, idx, exc,
                   sendCount, attempted, raised>>
    /\ UNCHANGED <<bufVars, delayVars, reVars, stopVars, waitVars, hoursVars, callVars>>

CompleteCampaign(w) ==
    /\ cpc[w] = "complete"
    /\ campaign' = [campaign EXCEPT !.status = "completed"]
    /\ cpc' = [cpc EXCEPT ![w] = "idle"]
    /\ UNCHANGED <<taskStatus, taskBatch, taskError, dailyCounter, running,
                   redisClient, snap, dailySent, batch, idx, exc, sendCount,
                   attempted, raised>>
    /\ UNCHANGED <<bufVars, delayVars, reVars, stopVars, waitVars, hoursVars, callVars>>

\* asyncio.sleep(pause_minutes * 60) is over
BatchPause(w) ==
    /\ cpc[w] = "pause"
    /\ cpc' = [cpc EXCEPT ![w] = "idle"]
    /\ UNCHANGED <<campaign, taskStatus, taskBatch, taskError, dailyCounter,
                   running, redisClient, snap, dailySent, batch, idx, exc,
                   sendCount, attempted, raised>>
    /\ UNCHANGED <<bufVars, delayVars, reVars, stopVars, waitVars, hoursVars, callVars>>

\* _send_delivery: mark as sending
MarkSending(w) ==
    /\ cpc[w] = "sending"
    /\ taskStatus' = [taskStatus EXCEPT ![CurrentTask(w)] = "sending"]
    /\ attempted' = [attempted EXCEPT ![w] = @ \cup {CurrentTask(w)}]
    /\ exc' = [exc EXCEPT ![w] = ""]
    /\ cpc' = [cpc EXCEPT ![w] = "contents"]
    /\ UNCHANGED <<campaign, taskBatch, taskError, dailyCounter, running,
                   redisClient, snap, dailySent, batch, idx, sendCount, raised>>
    /\ UNCHANGED <<bufVars, delayVars, reVars, stopVars, waitVars, hoursVars, callVars>>

\* _send_delivery: the template's contents; none -> ValueError
LoadContents(w) ==
    /\ cpc[w] = "contents"
    /\ \E hasContents \in BOOLEAN :
         IF hasContents
         THEN /\ cpc' = [cpc EXCEPT ![w] = "send"]
              /\ UNCHANGED <<exc, raised>>
         ELSE /\ cpc' = [cpc EXCEPT ![w] = "except"]
              /\ exc' = [exc EXCEPT ![w] = "Template has no contents"]
              /\ raised' = [raised EXCEPT ![w] = @ \cup {CurrentTask(w)}]
    /\ UNCHANGED <<campaign, taskStatus, taskBatch, taskError, dailyCounter,
                   running, redisClient, snap, dailySent, batch, idx, sendCount,
                   attempted>>
    /\ UNCHANGED <<bufVars, delayVars, reVars, stopVars, waitVars, hoursVars, callVars>>

\* _send_delivery: the content items go to the sender, which returns or
\* raises (WhatsAppSender as it stands defines send_text and send_image only,
\* so the call raises unless the sender object provides send_message)
SendContents(w) ==
    /\ cpc[w] = "send"
    /\ \E outcome \in {"returns", "raises"} :
         IF outcome = "returns"
         THEN /\ sendCount' = [sendCount EXCEPT ![CurrentTask(w)] = @ + 1]
              /\ cpc' = [cpc EXCEPT ![w] = "marksent"]
              /\ UNCHANGED <<exc, raised>>
         ELSE /\ cpc' = [cpc EXCEPT ![w] = "except"]
              /\ exc' = [exc EXCEPT ![w] = "send error"]
              /\ raised' = [raised EXCEPT ![w] = @ \cup {CurrentTask(w)}]
              /\ UNCHANGED sendCount
    /\ UNCHANGED <<campaign, taskStatus, taskBatch, taskError, dailyCounter,
                   running, redisClient, snap, dailySent, batch, idx, attempted>>
    /\ UNCHANGED <<bufVars, delayVars, reVars, stopVars, waitVars, hoursVars, callVars>>

\* _send_delivery: update delivery as sent (and the campaign's statistics)
MarkSent(w) ==
    /\ cpc[w] = "marksent"
    /\ taskStatus' = [taskStatus EXCEPT ![CurrentTask(w)] = "sent"]
    /\ cpc' = [cpc EXCEPT ![w] = "incr"]
    /\ UNCHANGED <<campaign, taskBatch, taskError, dailyCounter, running,
                   redisClient, snap, dailySent, batch, idx, exc, sendCount,
                   attempted, raised>>
    /\ UNCHANGED <<bufVars, delayVars, reVars, stopVars, waitVars, hoursVars, callVars>>

\* incr(rate_key); expire(rate_key, 86400): the shared store answers or raises
IncrCounter(w) ==
    /\ cpc[w] = "incr"
    /\ \E outcome \in {"returns", "raises"} :
         IF outcome = "returns"
         THEN /\ dailyCounter' = dailyCounter + 1
              /\ cpc' = [cpc EXCEPT ![w] = "delay"]
              /\ UNCHANGED <<exc, raised>>
         ELSE /\ cpc' = [cpc EXCEPT ![w] = "except"]
              /\ exc' = [exc EXCEPT ![w] = "store error"]
              /\ raised' = [raised EXCEPT ![w] = @ \cup {CurrentTask(w)}]
              /\ UNCHANGED dailyCounter
    /\ UNCHANGED <<campaign, taskStatus, taskBatch, taskError, running,
                   redisClient, snap, dailySent, batch, idx, sendCount, attempted>>
    /\ UNCHANGED <<bufVars, delayVars, reVars, stopVars, waitVars, hoursVars, callVars>>

\* the pacing delay is over; the for loop takes the next delivery
PacingDelay(w) ==
    /\ cpc[w] = "delay"
    /\ idx' = [idx EXCEPT ![w] = @ + 1]
    /\ cpc' = [cpc EXCEPT ![w] = AfterDelivery(idx[w] + 1, Len(batch[w]))]
    /\ UNCHANGED <<campaign, taskStatus, taskBatch, taskError, dailyCounter,
                   running, redisClient, snap, dailySent, batch, exc, sendCount,
                   attempted, raised>>
    /\ UNCHANGED <<bufVars, delayVars, reVars, stopVars, waitVars, hoursVars, callVars>>

\* except Exception: mark as failed with str(e); no delay; next delivery
MarkFailed(w) ==
    /\ cpc[w] = "except"
    /\ taskStatus' = [taskStatus EXCEPT ![CurrentTask(w)] = "failed"]
    /\ taskError' = [taskError EXCEPT ![CurrentTask(w)] = exc[w]]
    /\ idx' = [idx EXCEPT ![w] = IndexAfterFailure(idx[w], Len(batch[w]))]
    /\ cpc' = [cpc EXCEPT ![w] =
                  AfterDelivery(IndexAfterFailure(idx[w], Len(batch[w])), Len(batch[w]))]
    /\ UNCHANGED <<campaign, taskBatch, dailyCounter, running, redisClient, snap,
                   dailySent, batch, exc, sendCount, attempted, raised>>
    /\ UNCHANGED <<bufVars, delayVars, reVars, stopVars, waitVars, hoursVars, callVars>>

\* the for loop is over: _process_campaign_batch returns, start() loops
ReturnFromBatch(w) ==
    /\ cpc[w] = "done"
    /\ cpc' = [cpc EXCEPT ![w] = "idle"]
    /\ UNCHANGED <<campaign, taskStatus, taskBatch, taskError, dailyCounter,
                   running, redisClient, snap, dailySent, batch, idx, exc,
                   sendCount, attempted, raised>>
    /\ UNCHANGED <<bufVars, delayVars, reVars, stopVars, waitVars, hoursVars, callVars>>

\* the 24 h TTL of the rate key runs out
CounterExpires ==
    /\ dailyCounter > 0
    /\ dailyCounter' = 0
    /\ UNCHANGED <<campaign, taskStatus, taskBatch, taskError, running,
                   redisClient, cpc, snap, dailySent, batch, idx, exc, sendCount,
                   attempted, raised>>
    /\ UNCHANGED <<bufVars, delayVars, reVars, stopVars, waitVars, hoursVars, callVars>>

NextDispatcher ==
    \/ \E w \in Dispatchers : SelectRunning(w)
    \/ \E w \in Dispatchers : GetRedis(w)
    \/ \E w \in Dispatchers : CheckDailyLimit(w)
    \/ \E w \in Dispatchers : FetchBatch(w)
    \/ \E w \in Dispatchers : AdvanceBatch(w)
    \/ \E w \in Dispatchers : CheckRemaining(w)
    \/ \E w \in Dispatchers : CompleteCampaign(w)
    \/ \E w \in Dispatchers : BatchPause(w)
    \/ \E w \in Dispatchers : MarkSending(w)
    \/ \E w \in Dispatchers : LoadContents(w)
    \/ \E w \in Dispatchers : SendContents(w)
    \/ \E w \in Dispatchers : MarkSent(w)
    \/ \E w \in Dispatchers : IncrCounter(w)
    \/ \E w \in Dispatchers : PacingDelay(w)
    \/ \E w \in Dispatchers : MarkFailed(w)
    \/ \E w \in Dispatchers : ReturnFromBatch(w)
    \/ CounterExpires

SpecDispatcher == InitDispatcher /\ [][NextDispatcher]_vars

\* one dispatcher per server process (uvicorn workers, replicas): every
\* process runs start() against the same campaign rows and the same counter
InitTwoWorkers ==
    /\ InitBuffer /\ InitDelay /\ InitTasks /\ InitCalls /\ InitHoursIdle /\ dargs = DefaultArgs
    /\ InitCampaignWith(2, 10, 0, Dispatchers)
    /\ redisClient = [w \in Dispatchers |-> "client"]
    /\ InitReengagementIdle

\* the two workers on the campaign's first batch: the ticks that find
\* pending deliveries (the empty-batch branch is left to SpecDispatcher)
NextTwoWorkers ==
    \/ \E w \in Dispatchers : SelectRunning(w)
    \/ \E w \in Dispatchers : GetRedis(w)
    \/ \E w \in Dispatchers : CheckDailyLimit(w)
    \/ \E w \in Dispatchers : FetchBatch(w)
    \/ \E w \in Dispatchers : MarkSending(w)
    \/ \E w \in Dispatchers : LoadContents(w)
    \/ \E w \in Dispatchers : SendContents(w)
    \/ \E w \in Dispatchers : MarkSent(w)
    \/ \E w \in Dispatchers : IncrCounter(w)
    \/ \E w \in Dispatchers : PacingDelay(w)
    \/ \E w \in Dispatchers : MarkFailed(w)
    \/ \E w \in Dispatchers : ReturnFromBatch(w)

SpecTwoWorkers == InitTwoWorkers /\ [][NextTwoWorkers]_vars

\* ------------------------------------------------------------------------
\* pause_campaign and schedule_campaign of a campaign the dispatcher works on
\* ------------------------------------------------------------------------
\* the delivery rows the first schedule_campaign inserted; the other rows
\* are inserted by a later schedule_campaign ("none" = no row yet)
FirstQueued == 1..(MaxTasks - 1)

\* queue_campaign_contacts: the rows to insert, numbered by enumerate from 0
RankAmong(t, S) == Cardinality({u \in S : u <= t})

InitProgress ==
    /\ InitBuffer /\ InitDelay /\ InitTasks /\ InitCalls /\ InitHoursIdle /\ dargs = DefaultArgs
    /\ InitReengagementIdle
    /\ \E b \in BatchSizes :
          /\ campaign = [status |-> "running", current_batch |-> 0,
                         batch_size |-> b, max_daily_volume |-> DEFAULT_DAILY_LIMIT]
          /\ taskBatch = [t \in TaskIds |->
                            IF t \in FirstQueued THEN QueuedBatchNumber(t, b) ELSE 0]
    /\ taskStatus = [t \in TaskIds |-> IF t \in FirstQueued THEN "pending" ELSE "none"]
    /\ taskError = [t \in TaskIds |-> ""]
    /\ dailyCounter \in {0, DEFAULT_DAILY_LIMIT}
    /\ running = {"d1"}
    /\ redisClient = [w \in Dispatchers |-> "client"]
    /\ cpc = [w \in Dispatchers |-> "idle"]
    /\ snap = [w \in Dispatchers |-> NoSnap]
    /\ dailySent = [w \in Dispatchers |-> 0]
    /\ batch = [w \in Dispatchers |-> <<>>]
    /\ idx = [w \in Dispatchers |-> 0]
    /\ exc = [w \in Dispatchers |-> ""]
    /\ sendCount = [t \in TaskIds |-> 0]
    /\ attempted = [w \in Dispatchers |-> {}]
    /\ raised = [w \in Dispatchers |-> {}]

\* pause_campaign: running (or scheduled) -> paused; the operator pauses
\* while contacts are still to be queued
PauseCampaign ==
    /\ campaign.status = "running"
    /\ \E t \in TaskIds : taskStatus[t] = "none"
    /\ campaign' = [campaign EXCEPT !.status = "paused"]
    /\ UNCHANGED <<taskStatus, taskBatch, taskError, dailyCounter, running,
                   redisClient, cpc, snap, dailySent, batch, idx, exc, sendCount,
                   attempted, raised>>
    /\ UNCHANGED <<bufVars, delayVars, reVars, stopVars, waitVars, hoursVars, callVars>>

\* schedule_campaign of a paused campaign: queue_campaign_contacts inserts
\* the rows with status pending and batch_number = i // batch_size, i from 0;
\* the campaign goes to running, current_batch is left as it is
ScheduleCampaign ==
    /\ campaign.status = "paused"
    /\ LET new == {t \in TaskIds : taskStatus[t] = "none"}
       IN  /\ new # {}
           /\ taskStatus' = [t \in TaskIds |->
                               IF t \in new THEN "pending" ELSE taskStatus[t]]
           /\ taskBatch' = [t \in TaskIds |->
                              IF t \in new
                              THEN QueuedBatchNumber(RankAmong(t, new), campaign.batch_size)
                              ELSE taskBatch[t]]
    /\ campaign' = [campaign EXCEPT !.status = "running"]
    /\ UNCHANGED <<taskError, dailyCounter, running, redisClient, cpc, snap,
                   dailySent, batch, idx, exc, sendCount, attempted, raised>>
    /\ UNCHANGED <<bufVars, delayVars, reVars, stopVars, waitVars, hoursVars, callVars>>

\* pause_campaign at any moment of a running campaign
PauseRunning ==
    /\ campaign.status = "running"
    /\ campaign' = [campaign EXCEPT !.status = "paused"]
    /\ UNCHANGED <<taskStatus, taskBatch, taskError, dailyCounter, running,
                   redisClient, cpc, snap, dailySent, batch, idx, exc, sendCount,
                   attempted, raised>>
    /\ UNCHANGED <<bufVars, delayVars, reVars, stopVars, waitVars, hoursVars, callVars>>

\* cancel_campaign: unless completed or cancelled already, the pending
\* deliveries become skipped and the campaign cancelled
CancelCampaign ==
    /\ campaign.status \notin {"completed", "cancelled"}
    /\ taskStatus' = [t \in TaskIds |->
                        IF taskStatus[t] = "pending" THEN "skipped" ELSE taskStatus[t]]
    /\ campaign' = [campaign EXCEPT !.status = "cancelled"]
    /\ UNCHANGED <<taskBatch, taskError, dailyCounter, running,
                   redisClient, cpc, snap, dailySent, batch, idx, exc, sendCount,
                   attempted, raised>>
    /\ UNCHANGED <<bufVars, delayVars, reVars, stopVars, waitVars, hoursVars, callVars>>

\* one step of the dispatcher process w
DispatcherStep(w) ==
    \/ SelectRunning(w)
    \/ GetRedis(w)
    \/ CheckDailyLimit(w)
    \/ FetchBatch(w)
    \/ AdvanceBatch(w)
    \/ CheckRemaining(w)
    \/ CompleteCampaign(w)
    \/ BatchPause(w)
    \/ MarkSending(w)
    \/ LoadContents(w)
    \/ SendContents(w)
    \/ MarkSent(w)
    \/ IncrCounter(w)
    \/ PacingDelay(w)
    \/ MarkFailed(w)
    \/ ReturnFromBatch(w)

NextProgress ==
    \/ DispatcherStep("d1")
    \/ CounterExpires
    \/ PauseCampaign
    \/ ScheduleCampaign

\* the dispatcher at work while the operator pauses or cancels the campaign
NextOperator ==
    \/ DispatcherStep("d1")
    \/ CounterExpires
    \/ PauseRunning
    \/ CancelCampaign

SpecOperator == InitDispatcher /\ [][NextOperator]_vars

\* the dispatcher keeps ticking (start() loops for ever), the rate key's
\* 24 h TTL runs out, and the operator schedules a paused campaign again
SpecProgress ==
    /\ InitProgress
    /\ [][NextProgress]_vars
    /\ WF_vars(DispatcherStep("d1"))
    /\ WF_vars(CounterExpires)
    /\ WF_vars(ScheduleCampaign)


\* ------------------------------------------------------------------------
\* ReengagementWatchdog: _check_conversations of each replica, trigger_manual,
\* and the writers of the conversation's records
\* ------------------------------------------------------------------------
otherVarsRe == <<bufVars, delayVars, campVars, stopVars, waitVars, hoursVars, callVars>>

\* a message convRow is inserted (orchestrator, messages API, follow-up handler)
InsertMessage(s) ==
    /\ lastSender # s
    /\ lastSender' = s
    /\ UNCHANGED <<agentMax, convActive, silent, attempts, rpc, convRow, ev, hidx,
                   events, verdict, invoked, hraised>>
    /\ UNCHANGED otherVarsRe

\* last_message_at = utcnow() (orchestrator, messages API)
TouchConversation ==
    /\ silent
    /\ silent' = FALSE
    /\ UNCHANGED <<agentMax, convActive, lastSender, attempts, rpc, convRow, ev,
                   hidx, events, verdict, invoked, hraised>>
    /\ UNCHANGED otherVarsRe

\* delay_minutes go by without a write of last_message_at
SilenceElapses ==
    /\ ~silent
    /\ silent' = TRUE
    /\ UNCHANGED <<agentMax, convActive, lastSender, attempts, rpc, convRow, ev,
                   hidx, events, verdict, invoked, hraised>>
    /\ UNCHANGED otherVarsRe

\* the conversation is closed or handed to a human
ConversationLeavesAI ==
    /\ convActive
    /\ convActive' = FALSE
    /\ UNCHANGED <<agentMax, silent, lastSender, attempts, rpc, convRow, ev, hidx,
                   events, verdict, invoked, hraised>>
    /\ UNCHANGED otherVarsRe

\* the tick's query of the agent's conversations
SelectConversations(r) ==
    /\ wd[r].task = "running"
    /\ rpc[r] = "idle"
    /\ IF ConversationSelected(convActive, silent, attempts, agentMax)
       THEN /\ convRow' = [convRow EXCEPT ![r] = attempts]
            /\ rpc' = [rpc EXCEPT ![r] = "lastmsg"]
            /\ verdict' = [replica |-> r, outcome |-> "selected"]
       ELSE /\ verdict' = [replica |-> r, outcome |-> "not_selected"]
            /\ UNCHANGED <<convRow, rpc>>
    /\ UNCHANGED <<agentMax, convActive, silent, lastSender, attempts, ev, hidx,
                   events, invoked, hraised>>
    /\ UNCHANGED otherVarsRe

\* faulty variant: the handlers are notified before the counter is written
AfterEventBuiltNotifiesFirst == "emit"

\* after the event is built the tick updates the counter, then emits
AfterEventBuilt == "update"

\* the newest message of the conversation; ours -> the event is built
CheckLastMessage(r) ==
    /\ wd[r].task = "running"
    /\ rpc[r] = "lastmsg"
    /\ convRow' = [convRow EXCEPT ![r] = IF LastMessageIsOurs(lastSender) THEN @ ELSE 0]
    /\ IF LastMessageIsOurs(lastSender)
       THEN /\ ev' = [ev EXCEPT ![r] = [attempt |-> AttemptNumber(convRow[r]),
                                        reason |-> "silence_timeout"]]
            /\ rpc' = [rpc EXCEPT ![r] = AfterEventBuilt]
            /\ verdict' = [replica |-> r, outcome |-> "event"]
       ELSE /\ rpc' = [rpc EXCEPT ![r] = "idle"]
            /\ verdict' = [replica |-> r, outcome |->
                              IF lastSender = "none" THEN "no_message" ELSE "not_ours"]
            /\ UNCHANGED ev
    /\ UNCHANGED <<agentMax, convActive, silent, lastSender, attempts, hidx,
                   events, invoked, hraised>>
    /\ UNCHANGED otherVarsRe

\* update reengagement_attempts = event.attempt_number
WriteAttempts(r) ==
    /\ wd[r].task = "running"
    /\ rpc[r] = "update"
    /\ attempts' = ev[r].attempt
    /\ rpc' = [rpc EXCEPT ![r] = "emit"]
    /\ UNCHANGED <<agentMax, convActive, silent, lastSender, convRow, ev, hidx,
                   events, verdict, invoked, hraised>>
    /\ UNCHANGED otherVarsRe

\* _emit_event(event) of the tick; an observed emit restarts the record of
\* the time gone by since the latest follow-up
EmitEvent(r, observed) ==
    /\ wd[r].task = "running"
    /\ rpc[r] = "emit"
    /\ Len(events) < MaxEvents
    /\ events' = Append(events, ev[r])
    /\ hidx' = [hidx EXCEPT ![r] = 1]
    /\ invoked' = [invoked EXCEPT ![r] = <<>>]
    /\ hraised' = [hraised EXCEPT ![r] = {}]
    /\ rpc' = [rpc EXCEPT ![r] = "handlers"]
    /\ sinceFollowUp' = IF observed THEN FALSE ELSE sinceFollowUp
    /\ UNCHANGED <<agentMax, convActive, silent, lastSender, attempts, convRow, ev,
                   verdict>>
    /\ UNCHANGED <<bufVars, delayVars, campVars, stopVars, hoursVars, callVars>>

\* reengagement_delay_minutes go by after a follow-up
DelayElapsesAgain ==
    /\ ~sinceFollowUp
    /\ sinceFollowUp' = TRUE
    /\ UNCHANGED <<bufVars, delayVars, campVars, reVars, stopVars, hoursVars, callVars>>

\* trigger_manual: reads the conversation, emits attempt + 1, writes nothing
TriggerManual ==
    /\ rpc[ManualCaller] = "idle"
    /\ Len(events) < MaxEvents
    /\ convRow' = [convRow EXCEPT ![ManualCaller] = attempts]
    /\ ev' = [ev EXCEPT ![ManualCaller] = [attempt |-> AttemptNumber(attempts),
                                           reason |-> "manual"]]
    /\ events' = Append(events, [attempt |-> AttemptNumber(attempts),
                                 reason |-> "manual"])
    /\ hidx' = [hidx EXCEPT ![ManualCaller] = 1]
    /\ invoked' = [invoked EXCEPT ![ManualCaller] = <<>>]
    /\ hraised' = [hraised EXCEPT ![ManualCaller] = {}]
    /\ rpc' = [rpc EXCEPT ![ManualCaller] = "handlers"]
    /\ UNCHANGED <<agentMax, convActive, silent, lastSender, attempts, verdict>>
    /\ UNCHANGED otherVarsRe

\* faulty variant: a handler's exception leaves the for loop
HandlerIndexAfterRaiseAborts(i, n) == n + 1

\* except Exception: logged; the for loop takes the next handler
HandlerIndexAfterRaise(i, n) == i + 1

\* _emit_event: await handler(event), which returns or raises
HandlerCall(e) ==
    /\ e \in Replicas => wd[e].task = "running"
    /\ rpc[e] = "handlers"
    /\ \E outcome \in {"returns", "raises"} :
         LET h == ReHandlers[hidx[e]]
             next == IF outcome = "raises"
                     THEN HandlerIndexAfterRaise(hidx[e], Len(ReHandlers))
                     ELSE hidx[e] + 1
         IN  /\ invoked' = [invoked EXCEPT ![e] = Append(@, h)]
             /\ hraised' = [hraised EXCEPT ![e] =
                               IF outcome = "raises" THEN @ \cup {h} ELSE @]
             /\ hidx' = [hidx EXCEPT ![e] = next]
             /\ rpc' = [rpc EXCEPT ![e] =
                           IF next > Len(ReHandlers) THEN "emitted" ELSE "handlers"]
    /\ UNCHANGED <<agentMax, convActive, silent, lastSender, attempts, convRow, ev,
                   events, verdict>>
    /\ UNCHANGED otherVarsRe

\* _emit_event has returned: the tick (or trigger_manual) is over
EmitReturns(e) ==
    /\ e \in Replicas => wd[e].task = "running"
    /\ rpc[e] = "emitted"
    /\ rpc' = [rpc EXCEPT ![e] = "idle"]
    /\ convRow' = [convRow EXCEPT ![e] = 0]
    /\ ev' = [ev EXCEPT ![e] = NoEvent]
    /\ hidx' = [hidx EXCEPT ![e] = 0]
    /\ invoked' = [invoked EXCEPT ![e] = <<>>]
    /\ hraised' = [hraised EXCEPT ![e] = {}]
    /\ UNCHANGED <<agentMax, convActive, silent, lastSender, attempts, events,
                   verdict>>
    /\ UNCHANGED otherVarsRe

\* the process of replica r dies inside a tick and is started again: what
\* the tick held in memory is gone, the conversation's row is as written
Crash(r) ==
    /\ wd[r].task = "running"
    /\ rpc[r] # "idle"
    /\ rpc' = [rpc EXCEPT ![r] = "idle"]
    /\ convRow' = [convRow EXCEPT ![r] = 0]
    /\ ev' = [ev EXCEPT ![r] = NoEvent]
    /\ hidx' = [hidx EXCEPT ![r] = 0]
    /\ invoked' = [invoked EXCEPT ![r] = <<>>]
    /\ hraised' = [hraised EXCEPT ![r] = {}]
    /\ UNCHANGED <<agentMax, convActive, silent, lastSender, attempts, events,
                   verdict>>
    /\ UNCHANGED otherVarsRe

NextWatchdog ==
    \/ \E s \in SenderTypes : InsertMessage(s)
    \/ TouchConversation
    \/ SilenceElapses
    \/ ConversationLeavesAI
    \/ \E r \in Replicas : SelectConversations(r)
    \/ \E r \in Replicas : CheckLastMessage(r)
    \/ \E r \in Replicas : WriteAttempts(r)
    \/ \E r \in Replicas : EmitEvent(r, FALSE)
    \/ TriggerManual
    \/ \E e \in Emitters : HandlerCall(e)
    \/ \E e \in Emitters : EmitReturns(e)

SpecWatchdog == InitWatchdog /\ [][NextWatchdog]_vars

\* the ticks of the replicas with processes that may die at any point
NextCrash ==
    \/ \E s \in SenderTypes : InsertMessage(s)
    \/ TouchConversation
    \/ SilenceElapses
    \/ \E r \in Replicas : SelectConversations(r)
    \/ \E r \in Replicas : CheckLastMessage(r)
    \/ \E r \in Replicas : WriteAttempts(r)
    \/ \E r \in Replicas : EmitEvent(r, FALSE)
    \/ \E r \in Replicas : HandlerCall(r)
    \/ \E r \in Replicas : EmitReturns(r)
    \/ \E r \in Replicas : Crash(r)

SpecCrash == InitWatchdog /\ [][NextCrash]_vars

\* faulty variant: no try/except around the tick: the exception ends the task
TaskAfterTickErrorEnds == "done"

\* _watch_loop: except Exception logs; the loop sleeps and checks _running
TaskAfterTickError == "running"

\* a database call of _check_conversations raises (the messages query or
\* the counter update of the conversation in hand): the tick is over, the
\* watch loop sleeps one interval
TickRaises(r) ==
    /\ wd[r].task = "running"
    /\ rpc[r] \in {"lastmsg", "update"}
    /\ rpc' = [rpc EXCEPT ![r] = "idle"]
    /\ convRow' = [convRow EXCEPT ![r] = 0]
    /\ ev' = [ev EXCEPT ![r] = NoEvent]
    /\ verdict' = [replica |-> r, outcome |-> "error"]
    /\ wd' = [wd EXCEPT ![r].task = TaskAfterTickError]
    /\ UNCHANGED <<agentMax, convActive, silent, lastSender, attempts, hidx,
                   events, invoked, hraised>>
    /\ UNCHANGED <<bufVars, delayVars, campVars, waitVars, hoursVars, callVars>>

\* the ticks of the replicas with database calls that may raise
NextTickFail ==
    \/ \E s \in SenderTypes : InsertMessage(s)
    \/ TouchConversation
    \/ SilenceElapses
    \/ \E r \in Replicas : SelectConversations(r)
    \/ \E r \in Replicas : CheckLastMessage(r)
    \/ \E r \in Replicas : WriteAttempts(r)
    \/ \E r \in Replicas : EmitEvent(r, FALSE)
    \/ \E r \in Replicas : HandlerCall(r)
    \/ \E r \in Replicas : EmitReturns(r)
    \/ \E r \in Replicas : TickRaises(r)

SpecTickFail == InitWatchdog /\ [][NextTickFail]_vars

\* one replica's ticks with the time since its latest follow-up on record
NextWait ==
    \/ \E s \in SenderTypes : InsertMessage(s)
    \/ TouchConversation
    \/ SilenceElapses
    \/ SelectConversations("r1")
    \/ CheckLastMessage("r1")
    \/ WriteAttempts("r1")
    \/ EmitEvent("r1", TRUE)
    \/ HandlerCall("r1")
    \/ EmitReturns("r1")
    \/ DelayElapsesAgain

SpecWait == InitWatchdog /\ [][NextWait]_vars

\* ------------------------------------------------------------------------
\* _check_conversations over the agents: the business-hours gate of each
\* agent, then its conversation (silent, our message last)
\* ------------------------------------------------------------------------
InitHours ==
    /\ InitBuffer /\ InitDelay /\ InitTasks /\ InitCalls /\ dargs = DefaultArgs
    /\ InitCampaignIdle /\ InitReengagementIdle
    /\ \E bhs \in [Elems(Agents) -> BusinessHoursValues] : InitHoursWith(bhs)

\* now = datetime.utcnow(); current_hour = now.hour; the agents are selected
HoursTick ==
    /\ hourPos = 0
    /\ \E h \in Hours : current_hour' = h
    /\ hourPos' = 1
    /\ hourStage' = "gate"
    /\ UNCHANGED <<business_hours, agentAttempts, firedCount>>
    /\ UNCHANGED <<bufVars, delayVars, campVars, reVars, stopVars, waitVars, callVars>>

\* outside business hours: continue; else the conversations query, which
\* returns the conversation while reengagement_attempts < max_attempts
HoursGate ==
    /\ hourPos >= 1
    /\ hourStage = "gate"
    /\ LET a == Agents[hourPos]
       IN  IF OutsideBusinessHours(current_hour, business_hours[a])
              \/ agentAttempts[a] >= DEFAULT_MAX_ATTEMPTS
           THEN /\ hourPos' = NextAgent(hourPos)
                /\ UNCHANGED hourStage
           ELSE /\ hourStage' = "update"
                /\ UNCHANGED hourPos
    /\ UNCHANGED <<business_hours, agentAttempts, firedCount, current_hour>>
    /\ UNCHANGED <<bufVars, delayVars, campVars, reVars, stopVars, waitVars, callVars>>

\* update reengagement_attempts = attempt_number
HoursUpdate ==
    /\ hourPos >= 1
    /\ hourStage = "update"
    /\ agentAttempts' = [agentAttempts EXCEPT ![Agents[hourPos]] =
                             AttemptNumber(agentAttempts[Agents[hourPos]])]
    /\ hourStage' = "emit"
    /\ UNCHANGED <<business_hours, firedCount, current_hour, hourPos>>
    /\ UNCHANGED <<bufVars, delayVars, campVars, reVars, stopVars, waitVars, callVars>>

\* await self._emit_event(event); the for loop takes the next agent
HoursEmit ==
    /\ hourPos >= 1
    /\ hourStage = "emit"
    /\ firedCount' = [firedCount EXCEPT ![Agents[hourPos]] = @ + 1]
    /\ hourPos' = NextAgent(hourPos)
    /\ hourStage' = "gate"
    /\ UNCHANGED <<business_hours, agentAttempts, current_hour>>
    /\ UNCHANGED <<bufVars, delayVars, campVars, reVars, stopVars, waitVars, callVars>>

NextHours ==
    \/ HoursTick
    \/ HoursGate
    \/ HoursUpdate
    \/ HoursEmit

SpecHours == InitHours /\ [][NextHours]_vars

\* Both dispatch loops: one webhook process and one buffer watcher with two
\* handlers registered, and re-engagement events emitted by trigger_manual
InitHandlers == InitBufferWith(TwoHandlers) /\ InitDelay /\ InitTasks /\ InitCalls /\ InitHoursIdle /\ dargs = DefaultArgs
                /\ InitCampaignIdle /\ InitReengagementIdle

NextHandlers ==
    \/ PushGetClient
    \/ PushRpush
    \/ PushExpire
    \/ PushLlen
    \/ Tick
    \/ WatchRecv("w1")
    \/ GetAcquire("w1", FALSE)
    \/ GetLrange("w1")
    \/ GetDelete("w1")
    \/ GetRelease("w1")
    \/ NotifyHandlers("w1")
    \/ TriggerManual
    \/ HandlerCall(ManualCaller)
    \/ EmitReturns(ManualCaller)

SpecHandlers == InitHandlers /\ [][NextHandlers]_vars

\* ------------------------------------------------------------------------
\* BufferWatchdog.stop / ReengagementWatchdog.stop and what the cancelled
\* _watch_loop task does
\* ------------------------------------------------------------------------
\* the awaits at which a watch loop task can be suspended: every store
\* command and handler call of the buffer watcher; asyncio.sleep and a
\* handler call of the re-engagement tick (its database calls do not await)
Suspended(p) == p \in Replicas => rpc[p] \in {"idle", "handlers"}

\* a handler invocation of the process is in flight
HandlerInFlight(p) ==
    IF p \in Watchers THEN wpc[p] = "notify" ELSE rpc[p] = "handlers"

\* the task is inside the inner try of get_buffer, whose finally deletes
\* the lock key
InsideLockedSection(w) == wpc[w] \in {"lrange", "delete", "release"}

\* an awaited handler call hit by the CancelledError of task.cancel():
\* except Exception (in the handlers, _notify_handlers and _emit_event)
\* does not catch it, the invocation ends where it was suspended
CutByCancel(inFlight) == inFlight

\* stop(): self._running = False; self._task.cancel(); await self._task
StopCall(p) ==
    /\ wd[p].stop = "idle"
    /\ wd[p].task = "running"
    /\ Suspended(p)
    /\ wd' = [wd EXCEPT ![p].running = FALSE, ![p].task = "cancelling",
                        ![p].stop = "awaiting"]
    /\ UNCHANGED <<bufVars, delayVars, campVars, reVars, waitVars, hoursVars, callVars>>

\* BufferWatchdog._watch_loop resumes with CancelledError: the packet or
\* the read in hand is dropped; except asyncio.CancelledError: pass
CancelledInWatcher(w) ==
    /\ wd[w].task = "cancelling"
    /\ wd' = [wd EXCEPT ![w].cut = CutByCancel(HandlerInFlight(w)),
                        ![w].task = IF InsideLockedSection(w)
                                    THEN "releasing" ELSE "unsubscribing"]
    /\ wpc' = [wpc EXCEPT ![w] = "stopped"]
    /\ raw' = [raw EXCEPT ![w] = <<>>]
    /\ packet' = [packet EXCEPT ![w] = <<>>]
    /\ nidx' = [nidx EXCEPT ![w] = 0]
    /\ nraised' = [nraised EXCEPT ![w] = {}]
    /\ readLo' = [readLo EXCEPT ![w] = 0]
    /\ readHi' = [readHi EXCEPT ![w] = 0]
    /\ preClear' = [preClear EXCEPT ![w] = FALSE]
    /\ UNCHANGED <<buf, bufTTL, lock, lockTTL, lockOwner, notif, ppc, nextId,
                   ret, delivCount, sincePush, winLo, expiredWin, bufHandlers>>
    /\ UNCHANGED <<faultVars, delayVars, campVars, reVars, waitVars, hoursVars, callVars>>

\* get_buffer's finally on the way out: await redis.delete(lock_key)
CancelledRelease(w) ==
    /\ wd[w].task = "releasing"
    /\ lock' = LockAfterRelease(lock)
    /\ lockTTL' = IF LockAfterRelease(lock) THEN lockTTL ELSE 0
    /\ lockOwner' = IF LockAfterRelease(lock) THEN lockOwner ELSE "none"
    /\ wd' = [wd EXCEPT ![w].task = "unsubscribing"]
    /\ UNCHANGED <<buf, bufTTL, notif, ppc, nextId, wpc, raw, packet, ret,
                   delivCount, sincePush, winLo, readLo, readHi, expiredWin>>
    /\ UNCHANGED <<faultVars, preClear, notifyVars, delayVars, campVars, reVars, waitVars, hoursVars, callVars>>

\* _watch_loop's finally: await pubsub.punsubscribe(); the task is over
Unsubscribe(w) ==
    /\ wd[w].task = "unsubscribing"
    /\ wd' = [wd EXCEPT ![w].subscribed = FALSE, ![w].task = "done"]
    /\ notif' = [notif EXCEPT ![w] = 0]
    /\ UNCHANGED <<buf, bufTTL, lock, lockTTL, lockOwner, ppc, nextId, wpc, raw,
                   packet, ret, delivCount, sincePush, winLo, readLo, readHi,
                   expiredWin>>
    /\ UNCHANGED <<faultVars, preClear, notifyVars, delayVars, campVars, reVars, waitVars, hoursVars, callVars>>

\* ReengagementWatchdog._watch_loop resumes with CancelledError, in
\* asyncio.sleep or in a handler; nothing catches it, the task is over
CancelledInTick(r) ==
    /\ wd[r].task = "cancelling"
    /\ wd' = [wd EXCEPT ![r].cut = CutByCancel(HandlerInFlight(r)),
                        ![r].task = "done"]
    /\ rpc' = [rpc EXCEPT ![r] = "stopped"]
    /\ convRow' = [convRow EXCEPT ![r] = 0]
    /\ ev' = [ev EXCEPT ![r] = NoEvent]
    /\ hidx' = [hidx EXCEPT ![r] = 0]
    /\ invoked' = [invoked EXCEPT ![r] = <<>>]
    /\ hraised' = [hraised EXCEPT ![r] = {}]
    /\ UNCHANGED <<agentMax, convActive, silent, lastSender, attempts, events,
                   verdict>>
    /\ UNCHANGED <<bufVars, delayVars, campVars, waitVars, hoursVars, callVars>>

\* await self._task raises CancelledError or returns; stop() returns
StopReturns(p) ==
    /\ wd[p].stop = "awaiting"
    /\ wd[p].task = "done"
    /\ wd' = [wd EXCEPT ![p].stop = "returned"]
    /\ UNCHANGED <<bufVars, delayVars, campVars, reVars, waitVars, hoursVars, callVars>>

\* pubsub.listen() raises (the connection to the store is lost):
\* except Exception logs the error and the loop is left for its finally;
\* _running is not touched
WatchLoopError(w) ==
    /\ wd[w].task = "running"
    /\ wpc[w] = "listen"
    /\ wd' = [wd EXCEPT ![w].task = "unsubscribing"]
    /\ wpc' = [wpc EXCEPT ![w] = "stopped"]
    /\ UNCHANGED <<buf, bufTTL, lock, lockTTL, lockOwner, notif, ppc, nextId, raw,
                   packet, ret, delivCount, sincePush, winLo, readLo, readHi,
                   expiredWin>>
    /\ UNCHANGED <<faultVars, preClear, notifyVars, delayVars, campVars, reVars, waitVars, hoursVars, callVars>>

\* start(): if self._running: return; else _running = True and a new
\* _watch_loop task, which subscribes and listens
StartCall(w) ==
    /\ wd[w].stop \in {"idle", "returned"}
    /\ wd[w].task \in {"running", "done"}
    /\ IF wd[w].running
       THEN UNCHANGED <<wd, wpc>>
       ELSE /\ wd' = [wd EXCEPT ![w] = [running |-> TRUE, task |-> "running",
                                        stop |-> "idle", subscribed |-> TRUE,
                                        cut |-> FALSE]]
            /\ wpc' = [wpc EXCEPT ![w] = "listen"]
    /\ UNCHANGED <<buf, bufTTL, lock, lockTTL, lockOwner, notif, ppc, nextId, raw,
                   packet, ret, delivCount, sincePush, winLo, readLo, readHi,
                   expiredWin>>
    /\ UNCHANGED <<faultVars, preClear, notifyVars, delayVars, campVars, reVars, waitVars, hoursVars, callVars>>

\* the buffer watcher w1 started, stopped and hit by errors of the
\* subscription at any moment
NextStart ==
    \/ PushGetClient
    \/ PushRpush
    \/ PushExpire
    \/ PushLlen
    \/ Tick
    \/ WatchRecv("w1")
    \/ GetAcquire("w1", FALSE)
    \/ GetLrange("w1")
    \/ GetDelete("w1")
    \/ GetRelease("w1")
    \/ NotifyHandlers("w1")
    \/ WatchLoopError("w1")
    \/ StartCall("w1")
    \/ StopCall("w1")
    \/ CancelledInWatcher("w1")
    \/ CancelledRelease("w1")
    \/ Unsubscribe("w1")
    \/ StopReturns("w1")

SpecStart == Init /\ [][NextStart]_vars

\* one process of each kind, stopped at any moment: the webhook and the
\* buffer watcher w1 with the startup handler, the re-engagement tick r1
NextStop ==
    \/ PushGetClient
    \/ PushRpush
    \/ PushExpire
    \/ PushLlen
    \/ Tick
    \/ WatchRecv("w1")
    \/ GetAcquire("w1", FALSE)
    \/ GetLrange("w1")
    \/ GetDelete("w1")
    \/ GetRelease("w1")
    \/ NotifyHandlers("w1")
    \/ StopCall("w1")
    \/ CancelledInWatcher("w1")
    \/ CancelledRelease("w1")
    \/ Unsubscribe("w1")
    \/ StopReturns("w1")
    \/ InsertMessage("ai")
    \/ SilenceElapses
    \/ SelectConversations("r1")
    \/ CheckLastMessage("r1")
    \/ WriteAttempts("r1")
    \/ EmitEvent("r1", FALSE)
    \/ HandlerCall("r1")
    \/ EmitReturns("r1")
    \/ StopCall("r1")
    \/ CancelledInTick("r1")
    \/ StopReturns("r1")

SpecStop == Init /\ [][NextStop]_vars


\* ========================================================================
\* Properties of the message buffer (checked under SpecBuffer)
\* ========================================================================

InCallAfterRead(w) == wpc[w] \in {"delete", "release"}

\* C1 (single-flight drain): of two get_buffer calls that run concurrently
\* on a non-empty buffer with no push in between, exactly one obtains the
\* messages and returns a packet; so never do two calls in flight both hold
\* a non-empty read of the same, unchanged buffer.
C1_SingleFlightDrain ==
    \A w1, w2 \in Watchers :
        (/\ w1 # w2
         /\ InCallAfterRead(w1) /\ InCallAfterRead(w2)
         /\ readHi[w1] = nextId /\ readHi[w2] = nextId)
        => ~(raw[w1] # <<>> /\ raw[w2] # <<>>)

Readable(m) ==
    \/ m \in Ids(buf)
    \/ \E w \in Watchers : wpc[w] # "listen" /\ m \in Ids(raw[w])
    \/ delivCount[m] > 0

\* C2 (delivery on silence): when the store expires the buffer key after
\* the last push, the pushed messages are still readable by the drain that
\* the expiry notification triggers, so they reach the handlers: no message
\* of an expired buffer is gone without being read or delivered.
C2_ExpiredDataStillReadable ==
    \A i \in 1..Len(expiredWin) : Readable(expiredWin[i])

\* C3 (coalescing and order): the packet a get_buffer returns holds exactly
\* the N messages pushed to the buffer since it was created, up to the
\* read, in push order (ids are given in push order), none missing.
C3_CoalescedInPushOrder ==
    \A w \in Watchers :
        packet[w] # <<>> =>
            /\ readLo[w] >= 1 /\ readHi[w] >= readLo[w]
            /\ packet[w] = Range(readLo[w], readHi[w])

C3_Witness ==
    \E w \in Watchers : wpc[w] = "notify" /\ Len(packet[w]) >= 2

\* C4 (nothing consumed without being delivered): every message that the
\* delete of get_buffer removes from the store is in the packet the call
\* returns; a message pushed between the read and the delete is not lost.
C4_DeleteRemovesOnlyReturned ==
    [][\A w \in Watchers :
          (wpc[w] = "delete" /\ wpc'[w] = "release")
          => Ids(buf) \subseteq Elems(packet'[w])]_vars

\* C5 (at-most-once delivery): every pushed message is in at most one
\* packet handed to the handlers.
C5_AtMostOncePerMessage ==
    \A m \in MsgIds : delivCount[m] <= 1

\* C6 (window reset): the watcher starts a drain for the conversation only
\* when a full debounce window has elapsed since the last push reset the TTL.
C6_NoDrainBeforeWindowElapsed ==
    [][\A w \in Watchers :
          (wpc[w] = "listen" /\ wpc'[w] = "acquire")
          => sincePush = BUFFER_TTL_SECONDS]_vars

\* C7 (empty drain): a get_buffer that finds no buffered message returns
\* None, creates no buffer key and leaves no lock behind.
C7_EmptyDrainReturnsNone ==
    [][\A w \in Watchers :
          /\ (wpc[w] = "lrange" /\ buf = <<>> /\ wpc'[w] # "lrange")
             => (wpc'[w] = "release" /\ raw'[w] = <<>> /\ buf' = <<>>)
          /\ (wpc[w] = "release" /\ raw[w] = <<>> /\ wpc'[w] # "release")
             => (/\ wpc'[w] = "listen"
                 /\ ret'[w] = "empty"
                 /\ packet'[w] = <<>>
                 /\ delivCount' = delivCount
                 /\ buf' = buf
                 /\ ~lock')]_vars

C7_Witness ==
    \E w \in Watchers :
        /\ ret[w] = "empty" /\ wpc[w] = "listen" /\ raw[w] = <<>>
        /\ buf = <<>> /\ ~lock

\* ========================================================================
\* Properties of the processing lock (checked under SpecLock)
\* ========================================================================

\* C21 (lock release respects ownership): the release step of a get_buffer
\* call deletes the lock only if that call still holds it; when the lock key
\* that exists was created by another call (the releasing call's lease ran
\* out and the other call acquired), the release leaves that key in place.
C21_ReleaseRespectsOwnership ==
    [][\A w \in Watchers :
          (/\ wpc[w] = "release" /\ wpc'[w] # "release"
           /\ lock /\ lockOwner # w)
          => lock']_vars

\* ========================================================================
\* Properties of clear_buffer (checked under SpecClear)
\* ========================================================================

\* C18 (clear stops automated processing): once clear_buffer has returned,
\* no handler is invoked with a packet holding a message pushed before the
\* clear, also when a get_buffer of the conversation was in flight at the
\* clear: no watcher hands over a packet whose messages it read before a
\* clear_buffer that has returned.
C18_ClearStopsProcessing ==
    [][\A w \in Watchers :
          (wpc[w] = "notify" /\ wpc'[w] = "listen") => ~preClear[w]]_vars

\* ========================================================================
\* Properties of push_message under store failures (checked under
\* SpecPushFaults)
\* ========================================================================

\* C17 (push degrades softly): push_message never raises, and a call that
\* found the store unavailable or had a store command fail returns 0; the
\* webhook request that called it goes on.
C17_PushDegradesSoftly ==
    [][/\ pushRet' # Raised
       /\ ppc' # "aborted"
       /\ (/\ ppc' = "idle"
           /\ ppc # "idle" \/ pushRet' # pushRet
           /\ ~storeUp \/ ~pushAvailable)
          => (pushRet' = 0 /\ buf' = buf)]_vars

\* a push whose EXPIRE failed has returned 0 and the webhook went on, the
\* message it had already appended still in the list
C17_Witness ==
    /\ ppc = "idle"
    /\ pushRet = 0
    /\ buf # <<>>
    /\ bufTTL = NoTTL
    /\ ~storeUp

\* ========================================================================
\* Properties of the delay service (checked under SpecDelay)
\* ========================================================================

\* C8 (delay ceiling): whatever the strategy and the caller's min_seconds
\* and max_seconds, the duration delay() computes and sleeps is in [0, 50] s.
C8_DelayWithinCeiling ==
    dcall.called => (0 <= dcall.seconds /\ dcall.seconds <= MAX_DELAY_SECONDS)

\* ========================================================================
\* Properties of the campaign dispatcher (checked under SpecDispatcher)
\* ========================================================================

PastDailyGate(w) == cpc[w] \notin {"idle", "redis", "limit"}

\* C9 (daily cap gate): a tick that found the daily counter at or over the
\* campaign's configured max_daily_volume sends no delivery, changes no
\* delivery status and does not advance current_batch.
C9_DailyCapGate ==
    [][\A w \in Dispatchers :
          (PastDailyGate(w) /\ dailySent[w] >= campaign.max_daily_volume)
          => /\ sendCount' = sendCount
             /\ taskStatus' = taskStatus
             /\ campaign'.current_batch = campaign.current_batch]_vars

BatchTasks(w) == {batch[w][i] : i \in 1..Len(batch[w])}

\* C10 (partial-batch resilience): when the for loop over a fetched batch
\* is over, every delivery of the batch was attempted in this tick and is
\* sent or failed, each delivery whose attempt raised is failed with the
\* error text recorded; and handling a failure leaves the campaign's status
\* as it was.
C10_PartialBatchResilience ==
    [][\A w \in Dispatchers :
          /\ cpc'[w] = "done" =>
                \A t \in BatchTasks(w) :
                    /\ t \in attempted'[w]
                    /\ taskStatus'[t] \in {"sent", "failed"}
                    /\ t \in raised'[w] =>
                          (taskStatus'[t] = "failed" /\ taskError'[t] # "")
          /\ cpc[w] = "except" => campaign'.status = campaign.status]_vars

\* a batch of two is over: its first delivery raised, its second was sent
C10_Witness ==
    \E w \in Dispatchers :
        /\ cpc[w] = "done"
        /\ Len(batch[w]) = 2
        /\ batch[w][1] \in raised[w]
        /\ taskStatus[batch[w][1]] = "failed"
        /\ taskStatus[batch[w][2]] = "sent"

\* C20 (daily cap is never exceeded): the cap is checked before each send, so
\* the daily counter of a campaign with max_daily_volume M never passes M,
\* also when a tick finds it below M and its batch is larger than what is
\* left: no increment of a tick that read the counter below M takes the
\* counter over M.
C20_DailyCapNeverExceeded ==
    [][\A w \in Dispatchers :
          (/\ cpc[w] = "incr"
           /\ dailySent[w] < campaign.max_daily_volume
           /\ dailyCounter' > dailyCounter)
          => dailyCounter' <= campaign.max_daily_volume]_vars

\* ========================================================================
\* Properties of the re-engagement watchdog (checked under SpecWatchdog)
\* ========================================================================

\* C11 (re-engagement gating): a tick goes on with a conversation only if
\* the conversation's attempts are below the agent's max attempts when the
\* tick queries it, builds an event only if the newest message then is not
\* the customer's, and a silence-timeout event is only ever emitted by a
\* tick that passed both gates.
C11_ReengagementGating ==
    [][/\ \A r \in Replicas :
            /\ (rpc[r] = "idle" /\ rpc'[r] = "lastmsg") => attempts < agentMax
            /\ (rpc[r] = "lastmsg" /\ rpc'[r] = "update") => lastSender # "customer"
            /\ rpc'[r] = "update" => rpc[r] \in {"lastmsg", "update"}
            /\ rpc'[r] = "emit" => rpc[r] \in {"update", "emit"}
       /\ (Len(events') > Len(events)
           /\ events'[Len(events')].reason = "silence_timeout")
          => \E r \in Replicas : rpc[r] = "emit" /\ rpc'[r] = "handlers"]_vars

\* a tick found a silent conversation whose newest message is the customer's
\* and left it alone
C11_Witness ==
    \E r \in Replicas :
        /\ verdict = [replica |-> r, outcome |-> "not_ours"]
        /\ rpc[r] = "idle"
        /\ lastSender = "customer"
        /\ silent
        /\ events = <<>>

\* C12 (unique attempt numbers): the attempt numbers of the events emitted
\* for the conversation, manual ones included, are strictly increasing.
C12_AttemptNumbersIncrease ==
    \A i, j \in 1..Len(events) :
        i < j => events[i].attempt < events[j].attempt

\* C13 (bounded follow-ups under replication): the silence-timeout events
\* emitted for the conversation never number more than the agent's max
\* attempts, and once no tick is between its counter write and its emit the
\* persisted counter equals their number.
C13_BoundedFollowUps ==
    /\ Len(SilenceEvents) <= agentMax
    /\ (\A r \in Replicas : rpc[r] # "emit") => attempts = Len(SilenceEvents)

\* C15 (progressive ramp): in a run of progressive calls on one prefix the
\* un-jittered base never goes down from one call to the next, it is the
\* maximum from the 11th call on, and a call leaves the counters of the
\* other prefixes alone.
C15_ProgressiveRamp ==
    [][\A p \in DelayPrefixes :
          (dargs.strategy = "progressive" /\ progCounter'[p] = progCounter[p] + 1)
          => /\ (dcall.called /\ PrefixOf(dcall.id) = p
                 /\ dcall.count + 1 = dcall'.count)
                => dcall.base <= dcall'.base
             /\ dcall'.count >= 10 => dcall'.base = dcall'.max_s
             /\ \A q \in DelayPrefixes \ {p} : progCounter'[q] = progCounter[q]]_vars


\* the caller's bounds, a left-out argument standing for the default
ArgMin == IF dargs.min_seconds = NoneArg THEN DEFAULT_MIN_SECONDS ELSE dargs.min_seconds
ArgMax == IF dargs.max_seconds = NoneArg THEN DEFAULT_MAX_SECONDS ELSE dargs.max_seconds

\* C16 (random-range bounds): for the random strategy called with
\* 0 <= min_seconds <= max_seconds <= 50, the computed delay d satisfies
\* min_seconds <= d <= max_seconds.
C16_RandomRangeBounds ==
    (/\ dcall.called
     /\ dargs.strategy = "random"
     /\ 0 <= ArgMin /\ ArgMin <= ArgMax /\ ArgMax <= MAX_DELAY_SECONDS)
    => (ArgMin <= dcall.seconds /\ dcall.seconds <= ArgMax)

\* a random delay of 20 s was drawn for the bounds 10 s and 30 s
C16_Witness ==
    /\ dcall.called
    /\ dargs.strategy = "random"
    /\ dargs.min_seconds = 1000 /\ dargs.max_seconds = 3000
    /\ dcall.seconds = 2000


\* ========================================================================
\* Properties of delay cancellation (checked under SpecDelayTasks)
\* ========================================================================

\* C14 (cancelable delay): a delay call during whose sleep cancel_delay was
\* called with its id returns was_cancelled = True and a duration of 0, and
\* when a delay call returns, cancelled or not, its id is not in the registry.
C14_CancelableDelay ==
    [][\A t \in DelayTasks :
          (tpc[t] = "sleeping" /\ tpc'[t] = "returned")
          => /\ cancelSeen[t] => (/\ tresult'[t].was_cancelled
                                  /\ tresult'[t].actual_duration_seconds = 0)
             /\ activeDelays'[tdelay[t].id] = NoTask]_vars

\* ========================================================================
\* Properties of the two dispatch loops (checked under SpecHandlers)
\* ========================================================================

\* C19 (handler isolation): when a packet or a re-engagement event is
\* dispatched, every registered handler is invoked exactly once in
\* registration order; a handler that raises neither keeps the later
\* handlers from being invoked nor ends the watch loop.  Each step of a
\* dispatch loop invokes the handler at the loop's position and moves the
\* position on by one, whatever the handler did; the loop starts at the
\* first handler and is left only after the last one, with the watcher
\* back at listen and the emitter at the end of _emit_event.
C19_HandlerIsolation ==
    [][/\ \A w \in Watchers :
            /\ (wpc[w] # "notify" /\ wpc'[w] = "notify") => nidx'[w] = 1
            /\ (wpc[w] = "notify" /\ nidx'[w] # nidx[w]) =>
                  IF nidx[w] < Len(bufHandlers)
                  THEN wpc'[w] = "notify" /\ nidx'[w] = nidx[w] + 1
                  ELSE wpc'[w] = "listen" /\ nidx[w] = Len(bufHandlers)
       /\ \A e \in Emitters :
            /\ (rpc[e] # "handlers" /\ rpc'[e] = "handlers") =>
                  (hidx'[e] = 1 /\ invoked'[e] = <<>>)
            /\ (rpc[e] = "handlers" /\ hidx'[e] # hidx[e]) =>
                  /\ invoked'[e] = Append(invoked[e], ReHandlers[hidx[e]])
                  /\ hidx'[e] = hidx[e] + 1
                  /\ rpc'[e] = IF hidx[e] < Len(ReHandlers)
                               THEN "handlers" ELSE "emitted"
            /\ rpc'[e] = "emitted" => invoked'[e] = ReHandlers]_vars

\* the packet's first handler raised and the second is about to be called,
\* while an event's first handler raised and both have been invoked
C19_Witness ==
    /\ wpc["w1"] = "notify"
    /\ nidx["w1"] = 2
    /\ nraised["w1"] = {"b1"}
    /\ rpc[ManualCaller] = "emitted"
    /\ "h1" \in hraised[ManualCaller]
    /\ invoked[ManualCaller] = ReHandlers

\* ========================================================================
\* Properties of the watchdogs' stop (checked under SpecStop)
\* ========================================================================

\* C22 (graceful stop): when stop() of the buffer watchdog or of the
\* re-engagement watchdog is called while a handler invocation is in
\* flight, the invocation runs to completion before stop returns; after
\* stop was called no new packet or event is dispatched; and the buffer
\* watcher has unsubscribed from the expiry notifications when stop returns.
C22_GracefulStop ==
    [][\A p \in WatchdogProcs :
          /\ (wd[p].stop = "awaiting" /\ wd'[p].stop = "returned") =>
                /\ ~wd'[p].cut
                /\ p \in Watchers => ~wd'[p].subscribed
          /\ wd[p].stop # "idle" =>
                IF p \in Watchers
                THEN /\ nidx'[p] \in {nidx[p], 0}
                     /\ delivCount' = delivCount
                ELSE /\ hidx'[p] \in {hidx[p], 0}
                     /\ events' = events]_vars


\* ========================================================================
\* Properties of the campaign dispatcher run by several worker processes
\* (checked under SpecTwoWorkers)
\* ========================================================================

\* C23 (no double send across workers): a delivery task is taken from
\* pending to sending by at most one worker, the worker that begins its
\* _send_delivery finding the row still pending, and no task's content is
\* handed to the sender twice.
C23_NoDoubleSend ==
    [][\A t \in TaskIds :
          /\ \A w \in Dispatchers :
                (t \in attempted'[w] /\ cpc[w] = "sending" /\ cpc'[w] = "contents"
                 /\ CurrentTask(w) = t)
                => taskStatus[t] = "pending"
          /\ sendCount'[t] <= 1]_vars


\* ========================================================================
\* Properties of the order of the counter write and the notification
\* (checked under SpecCrash)
\* ========================================================================

C25_PacingAfterEveryTask ==
    [][\A w \in Dispatchers :
          (idx[w] >= 1 /\ idx'[w] = idx[w] + 1 /\ idx'[w] <= Len(batch[w]))
          => cpc[w] = "delay"]_vars

\* C26 (sent/counter consistency): a delivery marked sent is never
\* afterwards overwritten, and the daily counter goes up by one only for a
\* delivery that is sent and stays sent.
C26_SentCounterConsistency ==
    [][/\ \A t \in TaskIds : taskStatus[t] = "sent" => taskStatus'[t] = "sent"
       /\ dailyCounter' = dailyCounter + 1 =>
             \E w \in Dispatchers :
                /\ cpc[w] = "incr"
                /\ taskStatus'[CurrentTask(w)] = "sent"]_vars


\* C27 (completion only when drained): the campaign is set to completed
\* only by a tick that found its current batch empty and that leaves no
\* pending delivery in any batch; a tick that found the batch empty while
\* pending deliveries remain has advanced current_batch by one and goes to
\* the batch pause, the campaign still running.
C27_CompletionOnlyWhenDrained ==
    [][LET pending == {t \in TaskIds : taskStatus[t] = "pending"}
       IN  /\ (campaign.status # "completed" /\ campaign'.status = "completed")
                => \E w \in Dispatchers :
                      /\ cpc[w] = "complete"
                      /\ batch[w] = <<>>
                      /\ pending = {}
           /\ \A w \in Dispatchers :
                (cpc[w] = "remaining" /\ cpc'[w] # "remaining")
                => IF pending = {}
                   THEN cpc'[w] = "complete"
                   ELSE /\ cpc'[w] = "pause"
                        /\ campaign.current_batch = snap[w].current_batch + 1
                        /\ campaign'.status = "running"]_vars

\* a campaign completed after the batch pauses between its batches
C27_Witness ==
    /\ campaign.status = "completed"
    /\ campaign.current_batch >= 2
    /\ \A t \in TaskIds : taskStatus[t] \in {"sent", "failed"}


\* ========================================================================
\* Progress of a campaign (checked under SpecProgress)
\* ========================================================================

\* C28 (campaign progress): a running campaign whose pending deliveries are
\* finitely many, whatever their batch_number relative to current_batch,
\* eventually has every delivery in a terminal status and is completed,
\* provided the dispatcher keeps ticking and the daily counter expires.
C28_CampaignProgress ==
    (campaign.status = "running")
        ~> (/\ campaign.status = "completed"
            /\ \A t \in TaskIds : taskStatus[t] \in {"none", "sent", "failed"})


\* ========================================================================
\* Properties of successive follow-ups (checked under SpecWait)
\* ========================================================================

\* C29 (back to waiting after firing): after the watchdog emitted attempt n
\* for the conversation it emits attempt n + 1 only when the agent's
\* delay_minutes have gone by again since that follow-up; two successive
\* attempts are never emitted by two consecutive ticks.
C29_BackToWaiting ==
    [][(/\ Len(events') = Len(events) + 1
        /\ events'[Len(events')].reason = "silence_timeout"
        /\ events'[Len(events')].attempt >= 2)
       => sinceFollowUp]_vars


\* ========================================================================
\* Properties of the business-hours gate (checked under SpecHours)
\* ========================================================================

\* C30 (business-hours gate): in a tick whose hour h lies outside an
\* agent's enabled window [start, end), that is h < start or h >= end, no
\* event is emitted and no attempt counter is written for the agent's
\* conversation, and the loop goes on from that agent to the next one.
C30_BusinessHoursGate ==
    [][\A i \in 1..Len(Agents) :
          LET a == Agents[i]
              bh == business_hours[a]
              enabled == "enabled" \in DOMAIN bh /\ bh["enabled"]
              start == IF "start" \in DOMAIN bh THEN bh["start"] ELSE DEFAULT_START_HOUR
              end == IF "end" \in DOMAIN bh THEN bh["end"] ELSE DEFAULT_END_HOUR
          IN  (hourPos # 0 /\ enabled
               /\ (current_hour < start \/ current_hour >= end))
              => /\ agentAttempts'[a] = agentAttempts[a]
                 /\ firedCount'[a] = firedCount[a]
                 /\ (hourPos = i /\ hourStage = "gate")
                       => (/\ hourPos' = (IF i = Len(Agents) THEN 0 ELSE i + 1)
                           /\ hourStage' = "gate")]_vars

\* a tick at the end hour of the first agent's window is over: nothing was
\* done for the first agent, an event was emitted for the second
C30_Witness ==
    /\ hourPos = 0
    /\ business_hours["a1"] = [enabled |-> TRUE, start |-> 13, end |-> 14]
    /\ current_hour = 14
    /\ agentAttempts["a1"] = 0 /\ firedCount["a1"] = 0
    /\ agentAttempts["a2"] = 1 /\ firedCount["a2"] = 1


\* ========================================================================
\* Properties of a tick that fails (checked under SpecTickFail)
\* ========================================================================

\* C31 (watchdog survives a failed tick): when _check_conversations raises,
\* the watch loop task stays alive with _running set and goes back to its
\* sleep, from which the next tick starts; nothing is written for the
\* conversation, which the next tick's query selects as before.
C31_SurvivesFailedTick ==
    [][\A r \in Replicas :
          (rpc[r] \in {"lastmsg", "update"} /\ rpc'[r] = "idle"
           /\ verdict'.outcome = "error")
          => /\ wd'[r].task = "running"
             /\ wd'[r].running
             /\ attempts' = attempts
             /\ events' = events
             /\ (convActive' /\ silent' /\ attempts' < agentMax')
                  = (convActive /\ silent /\ attempts < agentMax)]_vars

\* a tick of r1 failed on a conversation that is still to be followed up,
\* and the other replica's tick is at work on it
C31_Witness ==
    /\ verdict = [replica |-> "r1", outcome |-> "error"]
    /\ rpc["r1"] = "idle"
    /\ attempts = 0
    /\ convActive /\ silent
    /\ rpc["r2"] = "lastmsg"


\* ========================================================================
\* Properties of get_buffer's exits (checked under SpecParse)
\* ========================================================================

\* C32 (lock always released): whichever way a get_buffer that acquired the
\* lock returns (with a packet, with None for an empty list, with None
\* after an exception of the parse loop), the lock key is absent when it
\* returns, so the next SET NX on it succeeds at once.
C32_LockReleasedOnEveryExit ==
    [][\A w \in Watchers :
          (wpc[w] \in {"lrange", "delete", "release"}
           /\ wpc'[w] \in {"listen", "notify"})
          => (~lock' /\ SetNxAcquires(lock'))]_vars

\* a get_buffer read a non-empty list, its parse loop raised, and it is
\* back at the subscription with None returned and the lock key gone
C32_Witness ==
    \E w \in Watchers :
       /\ wpc[w] = "listen"
       /\ ret[w] = "error"
       /\ buf = <<>>
       /\ ~lock


\* ========================================================================
\* Properties of the buffer key's TTL (checked under SpecPushFaults)
\* ========================================================================

\* C33 (no immortal buffer): whenever no push_message is between its RPUSH
\* and its EXPIRE, a buffer key holding at least one message has a TTL of
\* at least one second and at most the debounce window, also after a store
\* error hit a push between the two commands.
C33_NoImmortalBuffer ==
    (buf # <<>> /\ ppc # "rpushed") => bufTTL \in 1..BUFFER_TTL_SECONDS


\* ========================================================================
\* Properties of the adaptive strategy (checked under SpecDelay)
\* ========================================================================

\* C34 (adaptive multiplier): set_rate_limit_signal stores its argument
\* clamped to [0.5, 5.0] (5 to 50 tenths), so every stored multiplier is in
\* that range; an adaptive delay computed for bounds min_s <= max_s is
\* min(draw * multiplier, max_s) for a draw in [min_s, max_s], the
\* multiplier being the one stored for the delay's id, or 1 if none is.
C34_AdaptiveMultiplier ==
    [][/\ \A k \in DelayIds :
            rateSignals'[k] # rateSignals[k] =>
               /\ 5 <= rateSignals'[k] /\ rateSignals'[k] <= 50
               /\ \E m \in MultiplierArgs :
                     rateSignals'[k] = IF m < 5 THEN 5 ELSE IF m > 50 THEN 50 ELSE m
       /\ (dcall' # dcall /\ dargs.strategy = "adaptive"
           /\ dcall'.min_s <= dcall'.max_s)
          => LET stored == rateSignals[dcall'.id]
                 multiplier == IF stored = 0 THEN 10 ELSE stored
             IN  \E draw \in dcall'.min_s .. dcall'.max_s :
                    LET scaled == (draw * multiplier) \div 10
                    IN  dcall'.seconds =
                           IF scaled <= dcall'.max_s THEN scaled ELSE dcall'.max_s]_vars

\* a multiplier of 0.1 was stored as 0.5, and an adaptive delay between
\* 10 s and 30 s came out as 5 s
C34_Witness ==
    /\ rateSignals[<<"batch", "1">>] = 5
    /\ dcall.called
    /\ dcall.id = <<"batch", "1">>
    /\ dargs.strategy = "adaptive"
    /\ dcall.min_s = 1000 /\ dcall.max_s = 3000
    /\ dcall.seconds = 500


\* ========================================================================
\* Properties of the operator's pause and cancel (checked under SpecOperator)
\* ========================================================================

\* C35 (operator pause/cancel is respected): while the campaign's status is
\* paused or cancelled the dispatcher begins no _send_delivery, not even for
\* the remaining deliveries of a batch it fetched before, and it does not
\* set the status to completed.
C35_PauseCancelRespected ==
    [][campaign.status \in {"paused", "cancelled"}
       => /\ \A w \in Dispatchers :
                ~(cpc[w] = "sending" /\ cpc'[w] = "contents")
          /\ campaign'.status # "completed"]_vars


\* ========================================================================
\* Properties of the buffer watchdog's flag (checked under SpecStart)
\* ========================================================================

\* C36 (watcher liveness flag): whenever _running is True the watch loop
\* task has not ended, and while it is in its loop it is subscribed to the
\* expiry notifications; so a loop that ended on an error has left the flag
\* False and a later start() creates a new loop.
C36_RunningMeansAlive ==
    \A w \in Watchers :
        wd[w].running =>
            /\ wd[w].task \in {"running", "unsubscribing"}
            /\ wd[w].task = "running" => wd[w].subscribed


\* ========================================================================
\* Properties of the registry of active delays (checked under
\* SpecDelayTasks)
\* ========================================================================

\* C37 (registry under a shared delay id): every delay call that is
\* sleeping and has not been cancelled is the registry's entry for its id,
\* so that cancel_delay(id) reaches it, also when another call with the
\* same id started, completed or was cancelled meanwhile.
C37_SleepingStaysRegistered ==
    \A t \in DelayTasks :
        (tpc[t] = "sleeping" /\ ~cancelReq[t])
        => activeDelays[tdelay[t].id] = t


\* ========================================================================
\* Properties of the service's availability flag (checked under SpecSticky)
\* ========================================================================

\* C38 (sticky unavailability): _available never goes from False to True;
\* while it is False every push_message returns 0 and every get_buffer,
\* peek_buffer and clear_buffer returns None, 0 and False (all recorded as
\* 0) without the store being contacted, whether the store is reachable or
\* not: no message is appended and no key removed by a call.
C38_StickyUnavailability ==
    [][/\ pushAvailable' => pushAvailable
       /\ ~pushAvailable =>
             /\ ppc' = "idle"
             /\ pushRet' \in {pushRet, 0}
             /\ nextId' = nextId
             /\ svcCall' # svcCall =>
                   (svcCall'.result = 0 /\ ~svcCall'.contacted /\ buf' = buf)
             /\ ~pushClient']_vars

\* the first connection failed, the store is reachable again, and a push
\* and a clear_buffer made since were answered without the store
C38_Witness ==
    /\ ~pushAvailable
    /\ storeUp
    /\ pushRet = 0
    /\ svcCall = [op |-> "clear_buffer", result |-> 0, contacted |-> FALSE]


\* ========================================================================
\* Properties of combined_text (checked under SpecCombined)
\* ========================================================================

\* the first n of the strings with sep between each two neighbours
RECURSIVE Separated(_, _, _)
Separated(strings, sep, n) ==
    IF n = 0 THEN <<>>
    ELSE IF n = 1 THEN strings[1]
    ELSE Separated(strings, sep, n - 1) \o sep \o strings[n]

\* the contents of the text-typed messages, in order
TextTypedContents(messages, withEmpty) ==
    LET kept == SelectSeq(messages,
                          LAMBDA m : m.content_type = "text"
                                     /\ (withEmpty \/ m.content # <<>>))
    IN  [i \in 1..Len(kept) |-> kept[i].content]

\* C39 (combined text): combined_text is the contents of the packet's
\* text-typed messages, in arrival order, with a newline between each two
\* consecutive ones; the other messages contribute nothing.
C39_CombinedTextNewlines ==
    calc.fn = "combined_text" =>
        LET texts == TextTypedContents(calc.arg, TRUE)
        IN  calc.out = Separated(texts, <<"\n">>, Len(texts))

\* C39 as amended: combined_text is the non-empty contents of the packet's
\* text-typed messages, in arrival order, with a single space between each
\* two consecutive ones; messages of another type and text messages
\* without content contribute nothing, not even a separator.
C39_CombinedTextSpaces ==
    calc.fn = "combined_text" =>
        LET texts == TextTypedContents(calc.arg, FALSE)
        IN  calc.out = Separated(texts, <<" ">>, Len(texts))

\* a text, an audio with a caption and a second text give "a b"
C39_Witness ==
    /\ calc.fn = "combined_text"
    /\ calc.arg = <<[content_type |-> "text", content |-> <<"a">>],
                    [content_type |-> "audio", content |-> <<"b">>],
                    [content_type |-> "text", content |-> <<"b">>]>>
    /\ calc.out = <<"a", " ", "b">>


\* ========================================================================
\* Properties of the watcher's key handling (checked under SpecKeys)
\* ========================================================================

\* C40 (key filter and round trip): the watcher calls get_buffer only for
\* an expired buffer key, never for a lock key or a rate-limit key; and for
\* the buffer key of a tenant id without ":" and any chat id it calls
\* get_buffer with exactly that tenant id and chat id.
C40_KeyFilterAndRoundTrip ==
    calc.fn = "watch" =>
        /\ calc.out.called => calc.kind = "buffer"
        /\ calc.kind = "buffer" =>
              calc.out = [called |-> TRUE, tenant_id |-> calc.tenant_id,
                          chat_id |-> calc.chat_id]

====
